---- MODULE Spec2Model ----
(***************************************************************************)
(* Vendor-management back end.                                             *)
(*                                                                         *)
(* Spec       the request pipeline of backend/src/server.js: auditLogger,  *)
(*            authenticate, tenantMiddleware, authorize, business handler. *)
(*            Requests are served one after the other; each advances one   *)
(*            step per database query it awaits, and the stored user and   *)
(*            tenant rows may change between any two steps.                *)
(* SpecPO     purchase-order creation and manual ERP sync of               *)
(*            backend/src/routes/procurement.js, with requests in flight   *)
(*            together and interleaving at every awaited query.            *)
(* SpecTenant the by-id operations on records that carry a tenant_id.      *)
(* SpecChild  the operations that reach rows through a parent or child id. *)
(* SpecPenalty the creation and approval of penalties, among operations    *)
(*            on contracts.                                                *)
(* SpecAudit  requests behind tenant resolution and the audit trail they   *)
(*            leave: auditLogger's INSERT and the administrators' read.    *)
(* SpecGate   the authorize(...allowedRoles) middleware on its own.        *)
(* SpecLogin  POST /auth/login, ahead of authenticate and tenant            *)
(*            resolution.                                                  *)
(* SpecRisk   POST /risk/assessments with fetchRiskData's retry loop;      *)
(*            SpecRiskLive adds that a request in service is served on.    *)
(* SpecRfp    adding sections to an RFP and publishing it, with requests   *)
(*            in flight together.                                          *)
(***************************************************************************)
EXTENDS Integers, Sequences, FiniteSets, TLC

VARIABLES
    users,        \* table users: id -> [tenant_id, role, status]
    tenants,      \* table tenants: id -> [status]
    req,          \* the context (req, res) and position of the request in flight
    served,       \* number of requests that have arrived so far
    audit_logs,   \* table audit_logs: sequence of rows, in insertion order
    errorLog,     \* ids of the requests whose audit INSERT was reported by console.error
    purchase_orders,        \* table purchase_orders: sequence of rows, id = index
    integration_sync_logs,  \* table integration_sync_logs: sequence of rows
    erpCalls,     \* the ERP system: purchase-order id -> create calls received
    poReqs,       \* procurement requests in flight: slot -> context and position
    contracts,              \* table contracts: sequence of rows, id = index
    contract_versions,      \* table contract_versions: set of rows
    penalties,              \* table penalties: sequence of rows, id = index
    ai_evaluation_scores,   \* table ai_evaluation_scores: sequence of rows, id = index
    evaluation_overrides,   \* table evaluation_overrides: sequence of rows
    survey_responses,       \* table survey_responses: sequence of rows, id = index
    gate,         \* the last evaluation of an authorize(...) middleware
    call,         \* the last by-id request served: who, what, and the answer
    vendor_risk_assessments,     \* table vendor_risk_assessments: sequence of rows
    vendor_master_consolidated,  \* table vendor_master_consolidated: vendor -> row
    risk_alerts,  \* table risk_alerts: sequence of rows
    riskReq,      \* the POST /risk/assessments request in flight
    rfps,         \* table rfps: sequence of rows, id = index
    rfp_sections, \* table rfp_sections: sequence of rows, in insertion order
    rfpReqs       \* RFP requests in flight: slot -> context and position

pipeVars == <<req, served, audit_logs, errorLog>>
poVars == <<purchase_orders, integration_sync_logs, erpCalls, poReqs>>
byIdVars == <<contracts, contract_versions, penalties, ai_evaluation_scores,
              evaluation_overrides, survey_responses, gate, call>>
riskVars == <<vendor_risk_assessments, vendor_master_consolidated, risk_alerts,
              riskReq>>
rfpVars == <<rfps, rfp_sections, rfpReqs>>
vars == <<users, tenants, req, served, audit_logs, errorLog,
          purchase_orders, integration_sync_logs, erpCalls, poReqs,
          contracts, contract_versions, penalties, ai_evaluation_scores,
          evaluation_overrides, survey_responses, gate, call,
          vendor_risk_assessments, vendor_master_consolidated, risk_alerts,
          riskReq, rfps, rfp_sections, rfpReqs>>

----------------------------------------------------------------------------
(* Bounds *)

\* number of requests the pipeline specification serves, one after the other
MaxReqs == 2

\* number of procurement requests (create, manual sync), all may overlap
MaxPoReqs == 3

PoSlots == 1..MaxPoReqs

\* number of POST /risk/assessments requests served, one after the other
MaxRiskReqs == 2

\* number of RFP requests (add-section, publish) in flight together
MaxRfpReqs == 3
RfpSlots == 1..MaxRfpReqs

----------------------------------------------------------------------------
(* Values *)

Tenants == {"tA", "tB"}
Users == {"u1", "u2", "u3"}
Roles == {"buyer_admin", "buyer_user", "vendor_user", "evaluation_committee"}

\* users as seeded / provisioned: an administrator of each tenant and a
\* buyer of tenant A
\* bcrypt.hash / bcrypt.compare: the stored hash determines the password
bcryptHash(password) == <<"bcrypt", password>>

\* UNIQUE(tenant_id, email): u1 and u2 have the same email in two tenants
InitUsers ==
    [u \in Users |->
        IF u = "u1"
        THEN [tenant_id |-> "tA", role |-> "buyer_admin", status |-> "active",
              email |-> "a@x", password_hash |-> bcryptHash("pw1"), last_login |-> 0]
        ELSE IF u = "u2"
        THEN [tenant_id |-> "tB", role |-> "buyer_admin", status |-> "active",
              email |-> "a@x", password_hash |-> bcryptHash("pw2"), last_login |-> 0]
        ELSE [tenant_id |-> "tA", role |-> "buyer_user", status |-> "active",
              email |-> "b@x", password_hash |-> bcryptHash("pw3"), last_login |-> 0]]

InitTenants == [t \in Tenants |-> [status |-> "active"]]

\* the user row and its tenant row are both 'active'
IsActive(u) ==
    users[u].status = "active" /\ tenants[users[u].tenant_id].status = "active"

\* vendors of the risk module; a vendor without a row in
\* vendor_master_consolidated
RiskVendors == {"v1", "v2"}
NoMasterRow == [risk_score |-> 0, risk_level |-> "none", req |-> 0]

NoUser == [id |-> "none", tenant_id |-> "none", role |-> "none"]
NoTenant == "none"

\* Leaves of a request's body and query string: a field is absent, holds a
\* submitted secret, or holds the placeholder of sanitizeBody.
Absent == "absent"
Secret == "hunter2"
Redacted == "[REDACTED]"

\* req.body with no field set ({} of express.json) and req.query without
\* parameters
EmptyBody ==
    [password |-> Absent, password_hash |-> Absent, token |-> Absent,
     profile |-> [password |-> Absent, token |-> Absent]]
EmptyQuery == [token |-> Absent]

\* the credential kinds a request can present
\* no token in the response
NoToken == [userId |-> "none", tenantId |-> "none", role |-> "none"]

CredKinds == {"none", "badsig", "expired", "valid"}

\* The claim set jwt.sign put into the token at login: the user's persisted
\* values at that time (the initial rows).
IssuedToken(u) ==
    [userId |-> u, tenantId |-> InitUsers[u].tenant_id, role |-> InitUsers[u].role]

----------------------------------------------------------------------------
(* Routes of the pipeline specification *)

PipeRoutes == {"contract_get", "contract_lock", "auth_me"}

\* The pipeline specification follows the requests that bear one user's
\* token.  authenticate and tenantMiddleware read no row but that user's and
\* its tenant's, so only changes to these two rows can affect a step.
PipeUsers == {"u1"}
PipeTenants == {InitUsers[u].tenant_id : u \in PipeUsers}

\* mount: the router the path belongs to; gated/roles: the authorize(...)
\* middleware of the route; auditable: the path contains the lower-cased
\* name of one of AUDITABLE_ACTIONS.
RouteInfo(route) ==
    CASE route = "contract_get" ->
            [mount |-> "api", gated |-> FALSE, roles |-> {}, auditable |-> FALSE]
      [] route = "contract_lock" ->
            [mount |-> "api", gated |-> TRUE, roles |-> {"buyer_admin"},
             auditable |-> TRUE]
      [] route = "auth_me" ->
            [mount |-> "auth", gated |-> FALSE, roles |-> {}, auditable |-> FALSE]
      [] route = "auth_login" ->
            [mount |-> "auth", gated |-> FALSE, roles |-> {}, auditable |-> FALSE]
      [] route = "penalty_create" ->
            [mount |-> "api", gated |-> TRUE, roles |-> {"buyer_admin"},
             auditable |-> FALSE]
      [] route = "audit_logs" ->
            [mount |-> "api", gated |-> TRUE, roles |-> {"buyer_admin"},
             auditable |-> FALSE]

----------------------------------------------------------------------------
(* authenticate, authorize, tenantMiddleware, auditLogger: the decisions *)

\* jwt.verify without the expiry check
verifyToken_ignoreExpiry(cred) ==
    CASE cred = "none" -> [ok |-> FALSE, status |-> 401, code |-> "AUTH_REQUIRED"]
      [] cred = "badsig" -> [ok |-> FALSE, status |-> 401, code |-> "INVALID_TOKEN"]
      [] cred \in {"expired", "valid"} -> [ok |-> TRUE, status |-> 0, code |-> "none"]

\* the catch branch that answers every jwt.verify error with one code
verifyToken_oneCode(cred) ==
    CASE cred = "none" -> [ok |-> FALSE, status |-> 401, code |-> "AUTH_REQUIRED"]
      [] cred \in {"badsig", "expired"} ->
            [ok |-> FALSE, status |-> 401, code |-> "INVALID_TOKEN"]
      [] cred = "valid" -> [ok |-> TRUE, status |-> 0, code |-> "none"]

\* authenticate, before any query: header check, then jwt.verify.
verifyToken(cred) ==
    CASE cred = "none" -> [ok |-> FALSE, status |-> 401, code |-> "AUTH_REQUIRED"]
      [] cred = "badsig" -> [ok |-> FALSE, status |-> 401, code |-> "INVALID_TOKEN"]
      [] cred = "expired" -> [ok |-> FALSE, status |-> 401, code |-> "TOKEN_EXPIRED"]
      [] cred = "valid" -> [ok |-> TRUE, status |-> 0, code |-> "none"]

\* the query without its u.status = 'active' condition
userRows_anyStatus(uid) ==
    {u \in Users : /\ u = uid
                   /\ users[u].status # "deleted"
                   /\ tenants[users[u].tenant_id].status = "active"}

\* authenticate's query: users JOIN tenants WHERE u.id = $1 AND u.status =
\* 'active' AND t.status = 'active'. The set of rows it returns.
userRows(uid) ==
    {u \in Users : /\ u = uid
                   /\ users[u].status = "active"
                   /\ tenants[users[u].tenant_id].status = "active"}

\* req.user built from the token's claims instead of the row
attachUser_fromToken(uid, token) ==
    [id |-> uid, tenant_id |-> token.tenantId, role |-> token.role]

\* req.user as authenticate attaches it: every field from the row.
attachUser(uid, token) ==
    [id |-> uid, tenant_id |-> users[uid].tenant_id, role |-> users[uid].role]

\* the gate that lets every authenticated user through a route that
\* declares no role
authorize_emptyAllowsAll(allowedRoles, user) ==
    IF user = NoUser
    THEN [ok |-> FALSE, status |-> 401, code |-> "AUTH_REQUIRED",
          required |-> {}, current |-> "none"]
    ELSE IF allowedRoles # {} /\ user.role \notin allowedRoles
         THEN [ok |-> FALSE, status |-> 403, code |-> "PERMISSION_DENIED",
               required |-> allowedRoles, current |-> user.role]
         ELSE [ok |-> TRUE, status |-> 0, code |-> "none",
               required |-> {}, current |-> "none"]

\* authorize(...allowedRoles): 401 without req.user, 403 naming the required
\* roles and the current role when the role is not included, next() otherwise
authorize(allowedRoles, user) ==
    IF user = NoUser
    THEN [ok |-> FALSE, status |-> 401, code |-> "AUTH_REQUIRED",
          required |-> {}, current |-> "none"]
    ELSE IF user.role \notin allowedRoles
         THEN [ok |-> FALSE, status |-> 403, code |-> "PERMISSION_DENIED",
               required |-> allowedRoles, current |-> user.role]
         ELSE [ok |-> TRUE, status |-> 0, code |-> "none",
               required |-> {}, current |-> "none"]

\* no authorize(...) evaluated yet
NoGate ==
    [applied |-> FALSE, allowedRoles |-> {}, user |-> NoUser,
     result |-> [ok |-> FALSE, status |-> 0, code |-> "none",
                 required |-> {}, current |-> "none"]]

\* the test without its "|| req.user" disjunct
shouldAudit_noUser(route, statusCode, user) ==
    RouteInfo(route).auditable \/ statusCode >= 400

\* auditLogger's test in the 'finish' callback.
shouldAudit(route, statusCode, user) ==
    RouteInfo(route).auditable \/ statusCode >= 400 \/ user # NoUser

----------------------------------------------------------------------------
(* The request context *)

NewReq ==
    [id |-> 0, pc |-> "idle", cred |-> "none", token |-> IssuedToken("u1"),
     route |-> "contract_get", user |-> NoUser, tenantId |-> NoTenant,
     status |-> 0, code |-> "none", ran |-> FALSE, queries |-> 0,
     arrivedInactive |-> FALSE, seenRole |-> "none", auditTried |-> 0,
     body |-> EmptyBody, query |-> EmptyQuery,
     email |-> "none", issued |-> NoToken]

Respond(q, status, code) ==
    [q EXCEPT !.pc = "responded", !.status = status, !.code = code]

NoCall ==
    [op |-> "none", user |-> "none", tenantId |-> NoTenant, id |-> 0,
     body_tenant_id |-> "none", status |-> 0, returned |-> {}, written |-> {}]

IdlePoReq ==
    [kind |-> "none", pc |-> "idle", userId |-> "none", tenantId |-> NoTenant,
     target |-> 0, erp_system |-> "none", total_amount |-> 0,
     vendor_id |-> "none", currency |-> "none", line_items |-> <<>>, count |-> 0,
     sawSynced |-> FALSE, called |-> FALSE, threw |-> FALSE, status |-> 0,
     solo |-> FALSE]

\* POST /risk/assessments: no request yet.  attempts counts the failed
\* calls of the provider, calls all of them, waited the backoff delays in
\* seconds, in order.
IdleRiskReq ==
    [id |-> 0, pc |-> "idle", userId |-> "none", tenantId |-> NoTenant,
     vendor_id |-> "none", attempts |-> 0, calls |-> 0, waited |-> <<>>,
     risk_score |-> 0, status |-> 0, retryable |-> FALSE]

\* the risk tables are empty after construction
InitRisk ==
    /\ vendor_risk_assessments = <<>>
    /\ vendor_master_consolidated = [v \in RiskVendors |-> NoMasterRow]
    /\ risk_alerts = <<>>
    /\ riskReq = IdleRiskReq

IdleRfpReq ==
    [kind |-> "none", pc |-> "idle", userId |-> "none", tenantId |-> NoTenant,
     target |-> 0, count |-> 0, status |-> 0]

\* a draft RFP of each tenant, owned by the tenant's administrator
InitRfp ==
    /\ rfps = <<[id |-> 1, tenant_id |-> "tA", owner_id |-> "u1", status |-> "draft"],
                [id |-> 2, tenant_id |-> "tB", owner_id |-> "u2", status |-> "draft"]>>
    /\ rfp_sections = <<>>
    /\ rfpReqs = [r \in RfpSlots |-> IdleRfpReq]

\* the state after construction: the seeded users and tenants, empty tables
Init ==
    /\ users = InitUsers
    /\ tenants = InitTenants
    /\ req = NewReq
    /\ served = 0
    /\ audit_logs = <<>>
    /\ errorLog = {}
    /\ purchase_orders = <<>>
    /\ integration_sync_logs = <<>>
    /\ erpCalls = [p \in PoSlots |-> 0]
    /\ poReqs = [r \in PoSlots |-> IdlePoReq]
    /\ contracts = <<>>
    /\ contract_versions = {}
    /\ penalties = <<>>
    /\ ai_evaluation_scores = <<>>
    /\ evaluation_overrides = <<>>
    /\ survey_responses = <<>>
    /\ gate = NoGate
    /\ call = NoCall
    /\ InitRisk
    /\ InitRfp

----------------------------------------------------------------------------
(* The pipeline of server.js, one action per awaited query.  Requests share *)
(* no mutable state but the tables, so the specification serves them one    *)
(* after the other while storage changes interleave with every step.        *)

\* A request arrives: auditLogger registers its 'finish' callback, then the
\* first authenticate of the request's path runs up to its query.  A missing
\* or unverifiable token is answered at once, without any query.
Arrive ==
    /\ req.pc \in {"idle", "done"}
    /\ served < MaxReqs
    /\ served' = served + 1
    /\ \E cred \in CredKinds, u \in PipeUsers, route \in PipeRoutes :
          LET v == verifyToken(cred)
              q0 == [NewReq EXCEPT !.id = served + 1, !.cred = cred,
                                   !.token = IssuedToken(u), !.route = route,
                                   !.arrivedInactive = ~IsActive(u)]
          IN  req' = IF v.ok THEN [q0 EXCEPT !.pc = "auth"]
                             ELSE Respond(q0, v.status, v.code)
    /\ UNCHANGED <<users, tenants, audit_logs, errorLog>>
    /\ UNCHANGED poVars
    /\ UNCHANGED byIdVars
    /\ UNCHANGED <<riskVars, rfpVars>>

\* authenticate's query returns (app.use(authenticate), or the route's own
\* authenticate on the auth router).
AuthLookup ==
    /\ req.pc = "auth"
    /\ LET uid == req.token.userId
           q1 == [req EXCEPT !.queries = @ + 1]
       IN  req' =
              IF userRows(uid) = {}
              THEN Respond(q1, 401, "USER_NOT_FOUND")
              ELSE LET q2 == [q1 EXCEPT !.user = attachUser(uid, req.token),
                                        !.seenRole = users[uid].role]
                   IN  IF RouteInfo(req.route).mount = "auth"
                       THEN [q2 EXCEPT !.pc = "handler"]
                       ELSE [q2 EXCEPT !.pc = "tenant"]
    /\ UNCHANGED <<users, tenants, served, audit_logs, errorLog>>
    /\ UNCHANGED poVars
    /\ UNCHANGED byIdVars
    /\ UNCHANGED <<riskVars, rfpVars>>

\* tenantMiddleware's query returns: SELECT ... FROM tenants WHERE id = $1
\* with $1 = req.user.tenant_id.  Then the router's own authenticate starts.
TenantLookup ==
    /\ req.pc = "tenant"
    /\ LET tid == req.user.tenant_id
           q1 == [req EXCEPT !.queries = @ + 1]
       IN  req' =
              IF tid \notin Tenants
              THEN Respond(q1, 404, "TENANT_NOT_FOUND")
              ELSE IF tenants[tid].status # "active"
              THEN Respond(q1, 403, "TENANT_INACTIVE")
              ELSE [q1 EXCEPT !.tenantId = tid, !.pc = "routerAuth"]
    /\ UNCHANGED <<users, tenants, served, audit_logs, errorLog>>
    /\ UNCHANGED poVars
    /\ UNCHANGED byIdVars
    /\ UNCHANGED <<riskVars, rfpVars>>

\* router.use(authenticate): the second lookup, then the route's authorize
\* and the start of the handler, all in the continuation of the query.
RouterAuthLookup ==
    /\ req.pc = "routerAuth"
    /\ LET uid == req.token.userId
           info == RouteInfo(req.route)
           q1 == [req EXCEPT !.queries = @ + 1]
       IN  req' =
              IF userRows(uid) = {}
              THEN Respond(q1, 401, "USER_NOT_FOUND")
              ELSE LET q2 == [q1 EXCEPT !.user = attachUser(uid, req.token),
                                        !.seenRole = users[uid].role]
                       a == authorize(info.roles, q2.user)
                   IN  IF info.gated /\ ~a.ok
                       THEN Respond(q2, a.status, a.code)
                       ELSE [q2 EXCEPT !.pc = "handler"]
    /\ UNCHANGED <<users, tenants, served, audit_logs, errorLog>>
    /\ UNCHANGED poVars
    /\ UNCHANGED byIdVars
    /\ UNCHANGED <<riskVars, rfpVars>>

\* The statuses a business handler of the pipeline specification answers:
\* success, rejected input, and an error passed on to errorHandler.
HandlerStatuses == {200, 400, 500}

\* The business handler runs its queries and answers.  GET /auth/me answers
\* 404 when the row is gone and 200 otherwise.
Handler ==
    /\ req.pc = "handler"
    /\ LET q1 == [req EXCEPT !.ran = TRUE, !.queries = @ + 1]
       IN  IF req.route = "auth_me"
           THEN req' = IF users[req.user.id].status = "deleted"
                       THEN Respond(q1, 404, "USER_NOT_FOUND")
                       ELSE Respond(q1, 200, "none")
           ELSE \E st \in HandlerStatuses :
                    req' = Respond(q1, st, IF st = 500 THEN "INTERNAL_ERROR" ELSE "none")
    /\ UNCHANGED <<users, tenants, served, audit_logs, errorLog>>
    /\ UNCHANGED poVars
    /\ UNCHANGED byIdVars
    /\ UNCHANGED <<riskVars, rfpVars>>

\* res 'finish': the response has been handed to the client; auditLogger's
\* callback decides whether to insert, and issues the INSERT without awaiting.
Finish ==
    /\ req.pc = "responded"
    /\ req' = [req EXCEPT !.pc =
                  IF shouldAudit(req.route, req.status, req.user)
                     /\ req.tenantId # NoTenant
                  THEN "auditing" ELSE "done"]
    /\ UNCHANGED <<users, tenants, served, audit_logs, errorLog>>
    /\ UNCHANGED poVars
    /\ UNCHANGED byIdVars
    /\ UNCHANGED <<riskVars, rfpVars>>

\* sanitizeBody: a shallow copy of the body whose own password,
\* password_hash and token fields, when set, hold the placeholder
sanitizeBody(body) ==
    [body EXCEPT !.password = IF @ # Absent THEN Redacted ELSE @,
                 !.password_hash = IF @ # Absent THEN Redacted ELSE @,
                 !.token = IF @ # Absent THEN Redacted ELSE @]

\* auditData.details: the query as received, the body through sanitizeBody
auditDetails(q) ==
    [query |-> q.query, body |-> sanitizeBody(q.body), status_code |-> q.status]

\* the row with user_id left null
auditRow_anonymous(q) ==
    [req |-> q.id, tenant_id |-> q.tenantId, user_id |-> "none",
     action |-> q.route, status_code |-> q.status, details |-> auditDetails(q)]

\* auditData: the values of the INSERT INTO audit_logs
auditRow(q) ==
    [req |-> q.id, tenant_id |-> q.tenantId, user_id |-> q.user.id,
     action |-> q.route, status_code |-> q.status, details |-> auditDetails(q)]

\* the INSERT that replaces the newest entry instead of adding one
appendAuditRow_replaceLast(logs, row) ==
    IF logs = <<>> THEN <<row>> ELSE [logs EXCEPT ![Len(logs)] = row]

\* INSERT INTO audit_logs (...) VALUES (...)
appendAuditRow(logs, row) == Append(logs, row)

\* a rejected INSERT that leaves no trace
auditInsertFailed_silent(log, id) == log

\* .catch: console.error('Audit log insertion failed:', err)
auditInsertFailed(log, id) == log \cup {id}

\* The INSERT INTO audit_logs completes: the row is appended, or the query
\* rejects and .catch writes 'Audit log insertion failed' to the error log.
AuditInsert ==
    /\ req.pc = "auditing"
    /\ \E ok \in BOOLEAN :
          IF ok
          THEN /\ audit_logs' = appendAuditRow(audit_logs, auditRow(req))
               /\ UNCHANGED errorLog
          ELSE /\ errorLog' = auditInsertFailed(errorLog, req.id)
               /\ UNCHANGED audit_logs
    /\ req' = [req EXCEPT !.pc = "done", !.queries = @ + 1, !.auditTried = @ + 1]
    /\ UNCHANGED <<users, tenants, served>>
    /\ UNCHANGED poVars
    /\ UNCHANGED byIdVars
    /\ UNCHANGED <<riskVars, rfpVars>>

----------------------------------------------------------------------------
(* Storage changes made outside the request pipeline (provisioning) *)

DeactivateUser(u) ==
    /\ users[u].status = "active"
    /\ users' = [users EXCEPT ![u].status = "inactive"]
    /\ UNCHANGED <<tenants, req, served, audit_logs, errorLog>>
    /\ UNCHANGED poVars
    /\ UNCHANGED byIdVars
    /\ UNCHANGED <<riskVars, rfpVars>>

DeleteUser(u) ==
    /\ users[u].status # "deleted"
    /\ users' = [users EXCEPT ![u].status = "deleted"]
    /\ UNCHANGED <<tenants, req, served, audit_logs, errorLog>>
    /\ UNCHANGED poVars
    /\ UNCHANGED byIdVars
    /\ UNCHANGED <<riskVars, rfpVars>>

SuspendTenant(t) ==
    /\ tenants[t].status = "active"
    /\ tenants' = [tenants EXCEPT ![t].status = "suspended"]
    /\ UNCHANGED <<users, req, served, audit_logs, errorLog>>
    /\ UNCHANGED poVars
    /\ UNCHANGED byIdVars
    /\ UNCHANGED <<riskVars, rfpVars>>

ChangeRole(u, role) ==
    /\ users[u].status # "deleted"
    /\ users[u].role # role
    /\ users' = [users EXCEPT ![u].role = role]
    /\ UNCHANGED <<tenants, req, served, audit_logs, errorLog>>
    /\ UNCHANGED poVars
    /\ UNCHANGED byIdVars
    /\ UNCHANGED <<riskVars, rfpVars>>

Next ==
    \/ Arrive
    \/ AuthLookup
    \/ TenantLookup
    \/ RouterAuthLookup
    \/ Handler
    \/ Finish
    \/ AuditInsert
    \/ \E u \in PipeUsers : DeactivateUser(u)
    \/ \E u \in PipeUsers : DeleteUser(u)
    \/ \E t \in PipeTenants : SuspendTenant(t)
    \/ \E u \in PipeUsers, role \in Roles : ChangeRole(u, role)

Spec == Init /\ [][Next]_vars

\* POST /auth/login.  The auth router is mounted before authenticate and
\* tenantMiddleware: auditLogger registers its 'finish' callback, the
\* validators run, and the handler runs up to its SELECT.
LoginEmails == {"a@x", "b@x", "c@x", "not-an-email"}
LoginPasswords == {"pw1", "pw2", "wrong"}

LoginArrive ==
    /\ req.pc \in {"idle", "done"}
    /\ served < MaxReqs
    /\ served' = served + 1
    /\ \E email \in LoginEmails, password \in LoginPasswords :
          LET q0 == [NewReq EXCEPT !.id = served + 1, !.route = "auth_login",
                                   !.email = email, !.body.password = password]
          IN  req' = IF email = "not-an-email"
                     THEN Respond(q0, 400, "VALIDATION")
                     ELSE [q0 EXCEPT !.pc = "login"]
    /\ UNCHANGED <<users, tenants, audit_logs, errorLog>>
    /\ UNCHANGED poVars
    /\ UNCHANGED byIdVars
    /\ UNCHANGED <<riskVars, rfpVars>>

\* SELECT u.*, ... FROM users u JOIN tenants t ... WHERE u.email = $1: the
\* rows of every tenant with that email, in no specified order
loginRows(email) ==
    {u \in Users : users[u].status # "deleted" /\ users[u].email = email}

\* POST /auth/login from its SELECT on: rows[0] is any of the rows; the
\* checks on it; UPDATE users SET last_login; jwt.sign of the row's values.
LoginHandler ==
    /\ req.pc = "login"
    /\ LET q1 == [req EXCEPT !.ran = TRUE, !.queries = @ + 1]
       IN  IF loginRows(req.email) = {}
           THEN /\ req' = Respond(q1, 401, "INVALID_CREDENTIALS")
                /\ UNCHANGED users
           ELSE \E u \in loginRows(req.email) :
                   IF tenants[users[u].tenant_id].status # "active"
                   THEN /\ req' = Respond(q1, 403, "TENANT_INACTIVE")
                        /\ UNCHANGED users
                   ELSE IF users[u].status # "active"
                   THEN /\ req' = Respond(q1, 403, "USER_INACTIVE")
                        /\ UNCHANGED users
                   ELSE IF users[u].password_hash # bcryptHash(req.body.password)
                   THEN /\ req' = Respond(q1, 401, "INVALID_CREDENTIALS")
                        /\ UNCHANGED users
                   ELSE /\ users' = [users EXCEPT ![u].last_login = req.id]
                        /\ req' = Respond([q1 EXCEPT !.queries = @ + 1,
                                      !.issued = [userId |-> u,
                                                  tenantId |-> users[u].tenant_id,
                                                  role |-> users[u].role]],
                                      200, "none")
    /\ UNCHANGED <<tenants, served, audit_logs, errorLog>>
    /\ UNCHANGED poVars
    /\ UNCHANGED byIdVars
    /\ UNCHANGED <<riskVars, rfpVars>>

\* Finish is auditLogger's 'finish' callback; req.tenantId is never set on
\* this path, so the callback issues no INSERT.
NextLogin ==
    \/ LoginArrive
    \/ LoginHandler
    \/ Finish
    \/ \E u \in PipeUsers : DeactivateUser(u)
    \/ \E t \in PipeTenants : SuspendTenant(t)

SpecLogin == Init /\ [][NextLogin]_vars

\* The authorize(...allowedRoles) middleware on its own: a route declares
\* the roles allowedRoles, and the request reaching it carries no req.user
\* (u = "none") or the req.user that authenticate attached for the active
\* user u.
Authorize(allowedRoles, u) ==
    /\ u # "none" => userRows(u) # {}
    /\ LET user == IF u = "none" THEN NoUser ELSE attachUser(u, IssuedToken(u))
       IN  gate' = [applied |-> TRUE, allowedRoles |-> allowedRoles,
                    user |-> user, result |-> authorize(allowedRoles, user)]
    /\ UNCHANGED <<users, tenants>>
    /\ UNCHANGED pipeVars
    /\ UNCHANGED poVars
    /\ UNCHANGED <<contracts, contract_versions, penalties, ai_evaluation_scores,
                   evaluation_overrides, survey_responses, call>>
    /\ UNCHANGED <<riskVars, rfpVars>>

NextGate ==
    \/ \E allowedRoles \in SUBSET Roles, u \in Users \cup {"none"} :
          Authorize(allowedRoles, u)
    \/ \E u \in PipeUsers, role \in Roles : ChangeRole(u, role)

SpecGate == Init /\ [][NextGate]_vars

----------------------------------------------------------------------------
(* Purchase orders and the ERP synchronisation (routes/procurement.js) *)

NoErp == "none"
NoError == "none"
NullId == 0

\* SELECT COUNT(*) FROM purchase_orders WHERE tenant_id = $1
poCount(pos, tenantId) ==
    Cardinality({i \in DOMAIN pos : pos[i].tenant_id = tenantId})

\* the row INSERT INTO purchase_orders creates: the values given, status
\* 'draft', and the column defaults of schema.sql for the sync columns
newPoRow(id, tenantId, poNumber, body, userId) ==
    [id |-> id, tenant_id |-> tenantId, po_number |-> poNumber,
     status |-> "draft", vendor_id |-> body.vendor_id,
     total_amount |-> body.total_amount, currency |-> body.currency,
     line_items |-> body.line_items,
     erp_system |-> body.erp_system, erp_po_id |-> NullId,
     erp_sync_status |-> "pending", erp_sync_error |-> NoError,
     created_by |-> userId]

\* UNIQUE(tenant_id, po_number)
poNumberTaken(pos, tenantId, poNumber) ==
    \E i \in DOMAIN pos : pos[i].tenant_id = tenantId /\ pos[i].po_number = poNumber

\* SELECT * FROM purchase_orders WHERE id = $1 AND tenant_id = $2
poRows(pos, id, tenantId) ==
    {i \in DOMAIN pos : i = id /\ pos[i].tenant_id = tenantId}

\* a sync that also rewrites the order from the ERP system's answer
markSynced_overwrite(pos, id) ==
    [i \in DOMAIN pos |->
        IF i = id THEN [pos[i] EXCEPT !.erp_sync_status = "synced", !.erp_po_id = id,
                                      !.total_amount = 0, !.line_items = <<>>]
                  ELSE pos[i]]

\* syncPOToERP: UPDATE purchase_orders SET erp_sync_status = 'synced',
\* erp_po_id = $2 WHERE id = $3
markSynced(pos, id) ==
    [i \in DOMAIN pos |->
        IF i = id THEN [pos[i] EXCEPT !.erp_sync_status = "synced", !.erp_po_id = id]
                  ELSE pos[i]]

\* the failure branch that also withdraws the order
markSyncFailed_rollback(pos, id, message) ==
    [i \in DOMAIN pos |->
        IF i = id THEN [pos[i] EXCEPT !.erp_sync_status = "failed",
                                      !.erp_sync_error = message,
                                      !.status = "cancelled"]
                  ELSE pos[i]]

\* POST /purchase-orders, catch (erpError): UPDATE purchase_orders SET
\* erp_sync_status = 'failed', erp_sync_error = $2 WHERE id = $3
markSyncFailed(pos, id, message) ==
    [i \in DOMAIN pos |->
        IF i = id THEN [pos[i] EXCEPT !.erp_sync_status = "failed",
                                      !.erp_sync_error = message]
                  ELSE pos[i]]

\* integration_sync_logs.integration_id is declared NOT NULL: the INSERT of
\* a row is accepted only with an integration id.
syncLogAccepted(row) == row.integration_id # NullId

\* the row syncPOToERP inserts: integration_id is the literal null
syncLogRow(poId) ==
    [integration_id |-> NullId, sync_type |-> "po", direction |-> "push",
     status |-> "success", records_processed |-> 1, po |-> poId]

PoCallers == {"u1"}
ErpSystems == {NoErp, "SAP"}

PoRouteRoles(kind) ==
    IF kind = "create" THEN {"buyer_admin", "buyer_user"} ELSE {"buyer_admin"}

InSync(q) == q.pc \in {"remote", "update", "log"}

PoUnchangedRest ==
    /\ UNCHANGED <<users, tenants, req, served, audit_logs, errorLog>>
    /\ UNCHANGED byIdVars
    /\ UNCHANGED <<riskVars, rfpVars>>

\* A procurement request passes authenticate, tenantMiddleware and authorize
\* and its handler runs up to its first query.
PoStart(r) ==
    /\ poReqs[r].pc = "idle"
    /\ \A s \in PoSlots : s < r => poReqs[s].pc # "idle"
    /\ \E kind \in {"create", "sync"}, u \in PoCallers, erp \in ErpSystems,
          id \in PoSlots :
          /\ userRows(u) # {}
          /\ authorize(PoRouteRoles(kind), attachUser(u, IssuedToken(u))).ok
          /\ kind = "create" => id = 1
          /\ kind = "sync" => erp = NoErp
          /\ poReqs' = [poReqs EXCEPT ![r] =
                [IdlePoReq EXCEPT !.kind = kind, !.userId = u,
                    !.tenantId = attachUser(u, IssuedToken(u)).tenant_id,
                    !.target = IF kind = "sync" THEN id ELSE 0,
                    !.erp_system = erp,
                    !.total_amount = IF kind = "create" THEN 100 * r ELSE 0,
                    !.vendor_id = IF kind = "create" THEN "v1" ELSE "none",
                    !.currency = IF kind = "create" THEN "USD" ELSE "none",
                    !.line_items = IF kind = "create" THEN <<r>> ELSE <<>>,
                    !.solo = \A s \in PoSlots \ {r} :
                                 poReqs[s].pc \in {"idle", "done"},
                    !.pc = IF kind = "create" THEN "count" ELSE "select"]]
    /\ UNCHANGED <<purchase_orders, integration_sync_logs, erpCalls>>
    /\ PoUnchangedRest

\* POST /purchase-orders: the COUNT(*) that numbers the order
PoCount(r) ==
    /\ poReqs[r].pc = "count"
    /\ poReqs' = [poReqs EXCEPT
          ![r].count = poCount(purchase_orders, poReqs[r].tenantId),
          ![r].pc = "insert"]
    /\ UNCHANGED <<purchase_orders, integration_sync_logs, erpCalls>>
    /\ PoUnchangedRest

\* POST /purchase-orders: the INSERT; a duplicate (tenant_id, po_number) is
\* passed to errorHandler (409), otherwise syncPOToERP starts when an ERP
\* system is given and the request answers 201 when none is.
PoInsert(r) ==
    /\ poReqs[r].pc = "insert"
    /\ LET q == poReqs[r]
           poNumber == q.count + 1
           id == Len(purchase_orders) + 1
       IN  IF poNumberTaken(purchase_orders, q.tenantId, poNumber)
           THEN /\ poReqs' = [poReqs EXCEPT ![r].pc = "done", ![r].status = 409]
                /\ UNCHANGED purchase_orders
           ELSE /\ purchase_orders' = Append(purchase_orders,
                       newPoRow(id, q.tenantId, poNumber, q, q.userId))
                /\ poReqs' = [poReqs EXCEPT ![r] =
                       IF q.erp_system # NoErp
                       THEN [q EXCEPT !.target = id, !.pc = "remote"]
                       ELSE [q EXCEPT !.target = id, !.pc = "done", !.status = 201]]
    /\ UNCHANGED <<integration_sync_logs, erpCalls>>
    /\ PoUnchangedRest

\* POST /purchase-orders/:id/sync: the SELECT by id and tenant
SyncSelect(r) ==
    /\ poReqs[r].pc = "select"
    /\ LET q == poReqs[r]
           rows == poRows(purchase_orders, q.target, q.tenantId)
       IN  poReqs' = [poReqs EXCEPT ![r] =
              IF rows = {}
              THEN [q EXCEPT !.pc = "done", !.status = 404]
              ELSE LET po == purchase_orders[q.target]
                   IN  IF po.erp_system = NoErp
                       THEN [q EXCEPT !.pc = "done", !.status = 400]
                       ELSE [q EXCEPT !.pc = "remote",
                                      !.erp_system = po.erp_system,
                                      !.sawSynced = (po.erp_sync_status = "synced"
                                                     /\ po.erp_po_id # NullId)]]
    /\ UNCHANGED <<purchase_orders, integration_sync_logs, erpCalls>>
    /\ PoUnchangedRest

\* syncPOToERP: the push to the ERP system (the placeholder timer, which
\* always resolves) has been made for the order.
RemoteCall(r) ==
    /\ poReqs[r].pc = "remote"
    /\ erpCalls' = [erpCalls EXCEPT ![poReqs[r].target] = @ + 1]
    /\ poReqs' = [poReqs EXCEPT ![r].called = TRUE, ![r].pc = "update"]
    /\ UNCHANGED <<purchase_orders, integration_sync_logs>>
    /\ PoUnchangedRest

\* syncPOToERP: the UPDATE that marks the order synced
SyncUpdate(r) ==
    /\ poReqs[r].pc = "update"
    /\ purchase_orders' = markSynced(purchase_orders, poReqs[r].target)
    /\ poReqs' = [poReqs EXCEPT ![r].pc = "log"]
    /\ UNCHANGED <<integration_sync_logs, erpCalls>>
    /\ PoUnchangedRest

\* syncPOToERP: the INSERT INTO integration_sync_logs.  When the table
\* rejects the row syncPOToERP throws: the manual sync answers 503, the
\* creation goes on to annotate the order.
SyncLog(r) ==
    /\ poReqs[r].pc = "log"
    /\ LET q == poReqs[r]
           row == syncLogRow(q.target)
       IN  IF syncLogAccepted(row)
           THEN /\ integration_sync_logs' = Append(integration_sync_logs, row)
                /\ poReqs' = [poReqs EXCEPT ![r].pc = "done",
                       ![r].status = IF q.kind = "create" THEN 201 ELSE 200]
           ELSE /\ UNCHANGED integration_sync_logs
                /\ poReqs' = [poReqs EXCEPT ![r] =
                       IF q.kind = "create"
                       THEN [q EXCEPT !.threw = TRUE, !.pc = "annotate"]
                       ELSE [q EXCEPT !.threw = TRUE, !.pc = "done", !.status = 503]]
    /\ UNCHANGED <<purchase_orders, erpCalls>>
    /\ PoUnchangedRest

\* POST /purchase-orders, catch (erpError): annotate and answer 201
CreateAnnotate(r) ==
    /\ poReqs[r].pc = "annotate"
    /\ purchase_orders' = markSyncFailed(purchase_orders, poReqs[r].target,
                                         "integration_id_not_null")
    /\ poReqs' = [poReqs EXCEPT ![r].pc = "done", ![r].status = 201]
    /\ UNCHANGED <<integration_sync_logs, erpCalls>>
    /\ PoUnchangedRest

NextPO ==
    \/ \E r \in PoSlots : PoStart(r)
    \/ \E r \in PoSlots : PoCount(r)
    \/ \E r \in PoSlots : PoInsert(r)
    \/ \E r \in PoSlots : SyncSelect(r)
    \/ \E r \in PoSlots : RemoteCall(r)
    \/ \E r \in PoSlots : SyncUpdate(r)
    \/ \E r \in PoSlots : SyncLog(r)
    \/ \E r \in PoSlots : CreateAnnotate(r)

SpecPO == Init /\ [][NextPO]_vars

----------------------------------------------------------------------------
(* By-id operations on records that carry their own tenant_id
   (routes/procurement.js, routes/contract.js, routes/performance.js).
   Each request is served to its answer in one step; the tables hold one
   record of each tenant, as created through the routes of each tenant's
   own administrator. *)

\* the most pushes one purchase order receives through manual syncs
MaxResyncs == 2

\* the most penalties stored
MaxPenalties == 3

\* the tenant_id values a request body may carry; no handler reads it
BodyTenants == Tenants \cup {"none"}

\* two contracts under review, one of each tenant
SeedContracts ==
    <<[id |-> 1, tenant_id |-> "tA", status |-> "in_review", locked_by |-> "none"],
      [id |-> 2, tenant_id |-> "tB", status |-> "in_review", locked_by |-> "none"]>>

SeedContractVersions ==
    {[contract_id |-> 1, version_number |-> 1, changed_by |-> "u1"],
     [contract_id |-> 2, version_number |-> 1, changed_by |-> "u2"]}

\* POST /penalties: the row is created 'pending' in the creator's tenant
newPenaltyRow(id, tenantId, userId) ==
    [id |-> id, tenant_id |-> tenantId, status |-> "pending",
     approved_by |-> "none", created_by |-> userId]

\* INSERT INTO penalties (...) VALUES (..., 'pending')
insertPenalty(ps, tenantId, userId) ==
    Append(ps, newPenaltyRow(Len(ps) + 1, tenantId, userId))

SeedPenalties == <<newPenaltyRow(1, "tA", "u1"), newPenaltyRow(2, "tB", "u2")>>

SeedPurchaseOrders ==
    <<newPoRow(1, "tA", 1, [erp_system |-> "SAP", total_amount |-> 100,
                            vendor_id |-> "v1", currency |-> "USD",
                            line_items |-> <<1>>], "u1"),
      newPoRow(2, "tB", 1, [erp_system |-> "SAP", total_amount |-> 100,
                            vendor_id |-> "v1", currency |-> "USD",
                            line_items |-> <<1>>], "u2")>>

InitTenant ==
    /\ users = InitUsers
    /\ tenants = InitTenants
    /\ req = NewReq
    /\ served = 0
    /\ audit_logs = <<>>
    /\ errorLog = {}
    /\ purchase_orders = SeedPurchaseOrders
    /\ integration_sync_logs = <<>>
    /\ erpCalls = [p \in PoSlots |-> 0]
    /\ poReqs = [r \in PoSlots |-> IdlePoReq]
    /\ contracts = SeedContracts
    /\ contract_versions = SeedContractVersions
    /\ penalties = SeedPenalties
    /\ ai_evaluation_scores = <<>>
    /\ evaluation_overrides = <<>>
    /\ survey_responses = <<>>
    /\ gate = NoGate
    /\ call = NoCall
    /\ InitRisk
    /\ InitRfp

\* the filter of the approval without its tenant condition
penaltyRows_anyTenant(ps, id, tenantId) ==
    {i \in DOMAIN ps : i = id}

\* the filter of GET /:id and POST /:id/lock without its tenant condition
contractRows_anyTenant(cs, id, tenantId) ==
    {i \in DOMAIN cs : i = id}

\* ... FROM contracts c WHERE c.id = $1 AND c.tenant_id = $2
contractRows(cs, id, tenantId) ==
    {i \in DOMAIN cs : i = id /\ cs[i].tenant_id = tenantId}

\* ... FROM penalties WHERE id = $2 AND tenant_id = $3
penaltyRows(ps, id, tenantId) ==
    {i \in DOMAIN ps : i = id /\ ps[i].tenant_id = tenantId}

\* SELECT * FROM contract_versions cv WHERE cv.contract_id = $1
versionsOf(cvs, id) == {v \in cvs : v.contract_id = id}

\* COALESCE((SELECT MAX(version_number) ... WHERE contract_id = $1), 0) + 1
nextVersionNumber(cvs, id) ==
    IF versionsOf(cvs, id) = {} THEN 1
    ELSE (CHOOSE n \in {v.version_number : v \in versionsOf(cvs, id)} :
             \A v \in versionsOf(cvs, id) : v.version_number <= n) + 1

\* the rows of a table that an operation changed
changedRows(name, before, after) ==
    {<<name, i>> : i \in {j \in DOMAIN before : after[j] # before[j]}}

\* the request of user u has passed authenticate and tenantMiddleware:
\* req.user and req.tenantId are those of the stored row
Caller(u) == attachUser(u, IssuedToken(u))

Admitted(u, roles) ==
    /\ userRows(u) # {}
    /\ authorize(roles, Caller(u)).ok

TenantUnchangedRest ==
    /\ UNCHANGED <<users, tenants, req, served, audit_logs, errorLog, poReqs>>
    /\ UNCHANGED <<ai_evaluation_scores, evaluation_overrides, survey_responses>>
    /\ UNCHANGED gate
    /\ UNCHANGED <<riskVars, rfpVars>>

\* GET /contracts/:id
GetContract(u, id, bodyTenant) ==
    /\ Admitted(u, Roles)
    /\ LET rows == contractRows(contracts, id, Caller(u).tenant_id)
       IN  call' = [op |-> "contract_get", user |-> u,
                    tenantId |-> Caller(u).tenant_id, id |-> id,
                    body_tenant_id |-> bodyTenant,
                    status |-> IF rows = {} THEN 404 ELSE 200,
                    returned |-> IF rows = {} THEN {}
                                 ELSE {<<"contracts", i>> : i \in rows},
                    written |-> {}]
    /\ UNCHANGED <<contracts, contract_versions, penalties, purchase_orders,
                   integration_sync_logs, erpCalls>>
    /\ TenantUnchangedRest

\* POST /contracts/:id/lock
LockContract(u, id, bodyTenant) ==
    /\ Admitted(u, {"buyer_admin"})
    /\ LET rows == {i \in contractRows(contracts, id, Caller(u).tenant_id) :
                       contracts[i].status = "in_review"}
       IN  /\ contracts' = [i \in DOMAIN contracts |->
                  IF i \in rows
                  THEN [contracts[i] EXCEPT !.status = "locked", !.locked_by = u]
                  ELSE contracts[i]]
           /\ contract_versions' =
                  IF rows = {} THEN contract_versions
                  ELSE contract_versions \cup
                       {[contract_id |-> id,
                         version_number |-> nextVersionNumber(contract_versions, id),
                         changed_by |-> u]}
           /\ call' = [op |-> "contract_lock", user |-> u,
                       tenantId |-> Caller(u).tenant_id, id |-> id,
                       body_tenant_id |-> bodyTenant,
                       status |-> IF rows = {} THEN 404 ELSE 200,
                       returned |-> {<<"contracts", i>> : i \in rows},
                       written |-> changedRows("contracts", contracts, contracts')]
    /\ UNCHANGED <<penalties, purchase_orders, integration_sync_logs, erpCalls>>
    /\ TenantUnchangedRest

\* POST /performance/penalties: 400 on a validation error, otherwise the
\* INSERT with status 'pending'; the advisory data sent along (ai_suggested,
\* a status of its own) is not read, and the bias check is only reported
CreatePenalty(u, advisory) ==
    /\ Admitted(u, {"buyer_admin"})
    /\ \E valid \in BOOLEAN :
          IF valid
          THEN /\ Len(penalties) < MaxPenalties
               /\ penalties' = insertPenalty(penalties, Caller(u).tenant_id, u)
               /\ call' = [op |-> "penalty_create", user |-> u,
                           tenantId |-> Caller(u).tenant_id, id |-> 0,
                           body_tenant_id |-> "none", status |-> 201,
                           returned |-> {<<"penalties", Len(penalties) + 1>>},
                           written |-> {<<"penalties", Len(penalties) + 1>>}]
          ELSE /\ UNCHANGED penalties
               /\ call' = [op |-> "penalty_create", user |-> u,
                           tenantId |-> Caller(u).tenant_id, id |-> 0,
                           body_tenant_id |-> "none", status |-> 400,
                           returned |-> {}, written |-> {}]
    /\ UNCHANGED <<contracts, contract_versions, purchase_orders,
                   integration_sync_logs, erpCalls>>
    /\ TenantUnchangedRest

\* POST /performance/penalties/:id/approve
ApprovePenalty(u, id, bodyTenant) ==
    /\ Admitted(u, {"buyer_admin"})
    /\ id \in DOMAIN penalties
    /\ LET rows == {i \in penaltyRows(penalties, id, Caller(u).tenant_id) :
                       penalties[i].status = "pending"}
       IN  /\ penalties' = [i \in DOMAIN penalties |->
                  IF i \in rows
                  THEN [penalties[i] EXCEPT !.status = "approved", !.approved_by = u]
                  ELSE penalties[i]]
           /\ call' = [op |-> "penalty_approve", user |-> u,
                       tenantId |-> Caller(u).tenant_id, id |-> id,
                       body_tenant_id |-> bodyTenant,
                       status |-> IF rows = {} THEN 404 ELSE 200,
                       returned |-> {<<"penalties", i>> : i \in rows},
                       written |-> changedRows("penalties", penalties, penalties')]
    /\ UNCHANGED <<contracts, contract_versions, purchase_orders,
                   integration_sync_logs, erpCalls>>
    /\ TenantUnchangedRest

\* POST /procurement/purchase-orders/:id/sync, syncPOToERP included
ManualSync(u, id, bodyTenant) ==
    /\ Admitted(u, {"buyer_admin"})
    /\ LET rows == poRows(purchase_orders, id, Caller(u).tenant_id)
           pushes == rows # {} /\ purchase_orders[id].erp_system # NoErp
           logged == syncLogAccepted(syncLogRow(id))
       IN  /\ pushes => erpCalls[id] < MaxResyncs
           /\ erpCalls' = IF pushes THEN [erpCalls EXCEPT ![id] = @ + 1]
                          ELSE erpCalls
           /\ purchase_orders' = IF pushes THEN markSynced(purchase_orders, id)
                                 ELSE purchase_orders
           /\ integration_sync_logs' =
                  IF pushes /\ logged
                  THEN Append(integration_sync_logs, syncLogRow(id))
                  ELSE integration_sync_logs
           /\ call' = [op |-> "po_sync", user |-> u,
                       tenantId |-> Caller(u).tenant_id, id |-> id,
                       body_tenant_id |-> bodyTenant,
                       status |-> IF rows = {} THEN 404
                                  ELSE IF ~pushes THEN 400
                                  ELSE IF logged THEN 200 ELSE 503,
                       returned |-> {},
                       written |-> changedRows("purchase_orders",
                                       purchase_orders, purchase_orders')]
    /\ UNCHANGED <<contracts, contract_versions, penalties>>
    /\ TenantUnchangedRest

NextTenant ==
    \E u \in Users, id \in 1..2, bodyTenant \in BodyTenants :
        \/ GetContract(u, id, bodyTenant)
        \/ LockContract(u, id, bodyTenant)
        \/ ApprovePenalty(u, id, bodyTenant)
        \/ ManualSync(u, id, bodyTenant)

SpecTenant == InitTenant /\ [][NextTenant]_vars

\* The penalties: creation and approval, among the operations on contracts
NextPenalty ==
    \/ \E u \in Users, advisory \in {"none", "ai_suggested"} :
          CreatePenalty(u, advisory)
    \/ \E u \in Users, id \in 1..MaxPenalties, bodyTenant \in BodyTenants :
          ApprovePenalty(u, id, bodyTenant)
    \/ \E u \in Users, id \in 1..2 : GetContract(u, id, "none")
    \/ \E u \in Users, id \in 1..2 : LockContract(u, id, "none")

SpecPenalty == InitTenant /\ [][NextPenalty]_vars

----------------------------------------------------------------------------
(* Operations that reach rows through a parent or child id (routes/rfp.js,
   routes/integration.js, routes/survey.js).  These rows carry no tenant_id
   of their own: their tenant is that of the RFP, integration or survey
   they hang from.  Each request is served to its answer in one step. *)

\* the most evaluation runs, score overrides and survey responses stored
MaxEvaluations == 1
MaxOverrides == 1
MaxSurveyResponses == 2

\* one RFP, integration and active survey of each tenant
SeedRfps == <<[id |-> 1, tenant_id |-> "tA"], [id |-> 2, tenant_id |-> "tB"]>>
SeedIntegrations == <<[id |-> 1, tenant_id |-> "tA"], [id |-> 2, tenant_id |-> "tB"]>>
SeedSurveys ==
    <<[id |-> 1, tenant_id |-> "tA", status |-> "active"],
      [id |-> 2, tenant_id |-> "tB", status |-> "active"]>>

\* one submitted vendor response to each RFP
SeedRfpResponses ==
    <<[id |-> 1, rfp_id |-> 1, status |-> "submitted"],
      [id |-> 2, rfp_id |-> 2, status |-> "submitted"]>>

\* one log row of each integration, as its sync worker records it
SeedSyncLogs ==
    <<[integration_id |-> 1, sync_type |-> "vendor", direction |-> "pull",
       status |-> "success", records_processed |-> 1, po |-> NullId],
      [integration_id |-> 2, sync_type |-> "vendor", direction |-> "pull",
       status |-> "success", records_processed |-> 1, po |-> NullId]>>

InitChild ==
    /\ users = InitUsers
    /\ tenants = InitTenants
    /\ req = NewReq
    /\ served = 0
    /\ audit_logs = <<>>
    /\ errorLog = {}
    /\ purchase_orders = <<>>
    /\ integration_sync_logs = SeedSyncLogs
    /\ erpCalls = [p \in PoSlots |-> 0]
    /\ poReqs = [r \in PoSlots |-> IdlePoReq]
    /\ contracts = <<>>
    /\ contract_versions = {}
    /\ penalties = <<>>
    /\ ai_evaluation_scores = <<>>
    /\ evaluation_overrides = <<>>
    /\ survey_responses = <<>>
    /\ gate = NoGate
    /\ call = NoCall
    /\ InitRisk
    /\ InitRfp

\* generateAIEvaluation: the criteria, and the weight of each in hundredths
Criteria == <<"technical_capability", "cost", "timeline", "experience">>
criterionWeight(criterion) == IF criterion = "cost" THEN 30 ELSE 23

\* Math.random() * 100: the scores a draw may give
AiScores == {20, 80}

\* ... FROM rfp_responses rr WHERE rr.rfp_id = $1 AND rr.status = 'submitted'
submittedResponses(rfpId) ==
    {i \in DOMAIN SeedRfpResponses :
        SeedRfpResponses[i].rfp_id = rfpId /\ SeedRfpResponses[i].status = "submitted"}

\* SELECT * FROM ai_evaluation_scores WHERE id = $1
evaluationRows(scores, evaluationId) ==
    {i \in DOMAIN scores : i = evaluationId}

\* SELECT * FROM integration_sync_logs WHERE integration_id = $1
syncLogsOf(logs, integrationId) ==
    {i \in DOMAIN logs : logs[i].integration_id = integrationId}

\* SELECT * FROM survey_responses WHERE survey_id = $1
surveyResponsesOf(rs, surveyId) ==
    {i \in DOMAIN rs : rs[i].survey_id = surveyId}

\* SELECT id, status FROM surveys WHERE id = $1 AND tenant_id = $2
surveyRows(id, tenantId) ==
    {i \in DOMAIN SeedSurveys : i = id /\ SeedSurveys[i].tenant_id = tenantId}

\* analyzeSentiment: the fixed score 75.5, in tenths
SentimentScore == 755

\* generateAIEvaluation(responseId, rfpId): the four rows inserted, with
\* ids following the rows already stored
evaluationRowsFor(responseId, firstId, draw) ==
    [k \in 1..Len(Criteria) |->
        [id |-> firstId + k - 1, response_id |-> responseId,
         criterion |-> Criteria[k], score |-> draw[Criteria[k]],
         weight |-> criterionWeight(Criteria[k]),
         weighted_score |-> draw[Criteria[k]] * criterionWeight(Criteria[k])]]

ChildUnchangedRest ==
    /\ UNCHANGED <<users, tenants, req, served, audit_logs, errorLog>>
    /\ UNCHANGED <<purchase_orders, erpCalls, poReqs>>
    /\ UNCHANGED <<contracts, contract_versions, penalties, gate>>
    /\ UNCHANGED <<riskVars, rfpVars>>

\* POST /rfp/:id/evaluate
Evaluate(u, rfpId) ==
    /\ Admitted(u, {"buyer_admin", "evaluation_committee"})
    /\ LET rs == submittedResponses(rfpId)
       IN  IF rs = {}
           THEN /\ call' = [op |-> "rfp_evaluate", user |-> u,
                            tenantId |-> Caller(u).tenant_id, id |-> rfpId,
                            body_tenant_id |-> "none", status |-> 400,
                            returned |-> {}, written |-> {}]
                /\ UNCHANGED ai_evaluation_scores
           ELSE /\ Len(ai_evaluation_scores) < Len(Criteria) * MaxEvaluations
                /\ \E draw \in [{Criteria[k] : k \in 1..Len(Criteria)} -> AiScores] :
                      LET responseId == CHOOSE i \in rs : TRUE
                          rows == evaluationRowsFor(responseId,
                                      Len(ai_evaluation_scores) + 1, draw)
                          new == {<<"ai_evaluation_scores", rows[k].id>> :
                                      k \in DOMAIN rows}
                      IN  /\ ai_evaluation_scores' = ai_evaluation_scores \o rows
                          /\ call' = [op |-> "rfp_evaluate", user |-> u,
                                      tenantId |-> Caller(u).tenant_id,
                                      id |-> rfpId, body_tenant_id |-> "none",
                                      status |-> 200,
                                      returned |-> new \cup
                                          {<<"rfp_responses", i>> : i \in rs},
                                      written |-> new]
    /\ UNCHANGED <<evaluation_overrides, integration_sync_logs, survey_responses>>
    /\ ChildUnchangedRest

\* POST /rfp/:id/override-score with body.evaluation_id and body.new_score
OverrideScore(u, rfpId, evaluationId, newScore) ==
    /\ Admitted(u, {"buyer_admin", "evaluation_committee"})
    /\ LET rows == evaluationRows(ai_evaluation_scores, evaluationId)
       IN  IF rows = {}
           THEN /\ call' = [op |-> "rfp_override", user |-> u,
                            tenantId |-> Caller(u).tenant_id, id |-> rfpId,
                            body_tenant_id |-> "none", status |-> 404,
                            returned |-> {}, written |-> {}]
                /\ UNCHANGED <<ai_evaluation_scores, evaluation_overrides>>
           ELSE /\ Len(evaluation_overrides) < MaxOverrides
                /\ evaluation_overrides' = Append(evaluation_overrides,
                       [evaluation_id |-> evaluationId, overridden_by |-> u,
                        original_score |-> ai_evaluation_scores[evaluationId].score,
                        new_score |-> newScore])
                /\ ai_evaluation_scores' =
                       [ai_evaluation_scores EXCEPT ![evaluationId].score = newScore]
                /\ call' = [op |-> "rfp_override", user |-> u,
                            tenantId |-> Caller(u).tenant_id, id |-> rfpId,
                            body_tenant_id |-> "none", status |-> 200,
                            returned |->
                                {<<"ai_evaluation_scores", evaluationId>>,
                                 <<"evaluation_overrides",
                                   Len(evaluation_overrides) + 1>>},
                            written |->
                                {<<"ai_evaluation_scores", evaluationId>>,
                                 <<"evaluation_overrides",
                                   Len(evaluation_overrides) + 1>>}]
    /\ UNCHANGED <<integration_sync_logs, survey_responses>>
    /\ ChildUnchangedRest

\* GET /integrations/:id/sync-logs
SyncLogs(u, integrationId) ==
    /\ Admitted(u, {"buyer_admin"})
    /\ call' = [op |-> "sync_logs", user |-> u,
                tenantId |-> Caller(u).tenant_id, id |-> integrationId,
                body_tenant_id |-> "none", status |-> 200,
                returned |-> {<<"integration_sync_logs", i>> :
                    i \in syncLogsOf(integration_sync_logs, integrationId)},
                written |-> {}]
    /\ UNCHANGED <<ai_evaluation_scores, evaluation_overrides,
                   integration_sync_logs, survey_responses>>
    /\ ChildUnchangedRest

\* POST /surveys/:id/responses
SubmitSurveyResponse(u, surveyId) ==
    /\ Admitted(u, Roles)
    /\ LET rows == surveyRows(surveyId, Caller(u).tenant_id)
           accepted == rows # {} /\ SeedSurveys[surveyId].status = "active"
           newId == Len(survey_responses) + 1
       IN  /\ accepted => Len(survey_responses) < MaxSurveyResponses
           /\ survey_responses' =
                  IF accepted
                  THEN Append(survey_responses,
                           [id |-> newId, survey_id |-> surveyId,
                            respondent_id |-> u,
                            sentiment_score |-> SentimentScore])
                  ELSE survey_responses
           /\ call' = [op |-> "survey_respond", user |-> u,
                       tenantId |-> Caller(u).tenant_id, id |-> surveyId,
                       body_tenant_id |-> "none",
                       status |-> IF rows = {} THEN 404
                                  ELSE IF accepted THEN 201 ELSE 400,
                       returned |-> IF accepted
                                    THEN {<<"survey_responses", newId>>} ELSE {},
                       written |-> IF accepted
                                   THEN {<<"survey_responses", newId>>} ELSE {}]
    /\ UNCHANGED <<ai_evaluation_scores, evaluation_overrides, integration_sync_logs>>
    /\ ChildUnchangedRest

\* GET /surveys/:id/analytics
SurveyAnalytics(u, surveyId) ==
    /\ Admitted(u, Roles)
    /\ call' = [op |-> "survey_analytics", user |-> u,
                tenantId |-> Caller(u).tenant_id, id |-> surveyId,
                body_tenant_id |-> "none", status |-> 200,
                returned |-> {<<"survey_responses", i>> :
                    i \in surveyResponsesOf(survey_responses, surveyId)},
                written |-> {}]
    /\ UNCHANGED <<ai_evaluation_scores, evaluation_overrides,
                   integration_sync_logs, survey_responses>>
    /\ ChildUnchangedRest

NextChild ==
    \/ \E u \in Users, rfpId \in 1..2 : Evaluate(u, rfpId)
    \/ \E u \in Users, rfpId \in 1..2,
          evaluationId \in 1..(Len(Criteria) * MaxEvaluations) :
          OverrideScore(u, rfpId, evaluationId, 50)
    \/ \E u \in Users, integrationId \in 1..2 : SyncLogs(u, integrationId)
    \/ \E u \in Users, surveyId \in 1..2 : SubmitSurveyResponse(u, surveyId)
    \/ \E u \in Users, surveyId \in 1..2 : SurveyAnalytics(u, surveyId)

SpecChild == InitChild /\ [][NextChild]_vars

----------------------------------------------------------------------------
(* The audit trail of requests that carry data (middleware/auditLogger.js,
   routes/performance.js POST /penalties, routes/admin.js GET /audit-logs).
   A request is served up to its response in one step; the 'finish'
   callback and the audit INSERT then follow as in the pipeline. *)

AuditCallers == {"u1", "u3"}

\* bodies with a password of their own and one inside a nested object
AuditBodies ==
    {[EmptyBody EXCEPT !.password = p, !.profile.password = n] :
        p \in {Absent, Secret}, n \in {Absent, Secret}}

\* query strings without and with a token parameter
AuditQueries == {[token |-> t] : t \in {Absent, Secret}}

\* the request as it stands when the route's authorize(...) is evaluated
AdmittedReq(u, route, body, query) ==
    [NewReq EXCEPT !.id = served + 1, !.cred = "valid",
                   !.token = IssuedToken(u), !.route = route,
                   !.user = Caller(u), !.tenantId = Caller(u).tenant_id,
                   !.seenRole = users[u].role, !.queries = 3,
                   !.body = body, !.query = query]

\* SELECT * FROM audit_logs WHERE tenant_id = $1
auditRowsOfTenant(logs, tenantId) ==
    {i \in DOMAIN logs : logs[i].tenant_id = tenantId}

AuditUnchangedRest ==
    /\ UNCHANGED <<users, tenants, audit_logs, errorLog>>
    /\ UNCHANGED poVars
    /\ UNCHANGED <<contracts, contract_versions, ai_evaluation_scores,
                   evaluation_overrides, survey_responses, gate>>
    /\ UNCHANGED <<riskVars, rfpVars>>

\* POST /performance/penalties: authorize('buyer_admin'), then the handler:
\* 400 on a validation error, the INSERT and 201, or 500 through
\* errorHandler when the INSERT rejects
PostPenalty ==
    /\ req.pc \in {"idle", "done"}
    /\ served < MaxReqs
    /\ served' = served + 1
    /\ \E u \in AuditCallers, body \in AuditBodies, query \in AuditQueries,
          outcome \in {"invalid", "stored", "error"} :
          /\ userRows(u) # {}
          /\ LET q0 == AdmittedReq(u, "penalty_create", body, query)
                 a == authorize(RouteInfo("penalty_create").roles, q0.user)
                 q1 == [q0 EXCEPT !.ran = TRUE]
             IN  IF ~a.ok
                 THEN /\ req' = Respond(q0, a.status, a.code)
                      /\ UNCHANGED penalties
                 ELSE IF outcome = "invalid"
                 THEN /\ req' = Respond(q1, 400, "none")
                      /\ UNCHANGED penalties
                 ELSE IF outcome = "error"
                 THEN /\ req' = Respond([q1 EXCEPT !.queries = @ + 1],
                                        500, "INTERNAL_ERROR")
                      /\ UNCHANGED penalties
                 ELSE /\ req' = Respond([q1 EXCEPT !.queries = @ + 1], 201, "none")
                      /\ penalties' = insertPenalty(penalties, q0.tenantId, u)
    /\ UNCHANGED call
    /\ AuditUnchangedRest

\* GET /admin/audit-logs: router.use(authorize('buyer_admin')), then the
\* SELECT of the caller's tenant's entries
GetAuditLogs ==
    /\ req.pc \in {"idle", "done"}
    /\ served < MaxReqs
    /\ served' = served + 1
    /\ \E u \in AuditCallers, query \in AuditQueries :
          /\ userRows(u) # {}
          /\ LET q0 == AdmittedReq(u, "audit_logs", EmptyBody, query)
                 a == authorize(RouteInfo("audit_logs").roles, q0.user)
             IN  IF ~a.ok
                 THEN /\ req' = Respond(q0, a.status, a.code)
                      /\ UNCHANGED call
                 ELSE /\ req' = Respond([q0 EXCEPT !.ran = TRUE, !.queries = @ + 1],
                                        200, "none")
                      /\ call' = [op |-> "audit_logs", user |-> u,
                                  tenantId |-> q0.tenantId, id |-> 0,
                                  body_tenant_id |-> "none", status |-> 200,
                                  returned |-> {<<"audit_logs", i>> :
                                      i \in auditRowsOfTenant(audit_logs, q0.tenantId)},
                                  written |-> {}]
    /\ UNCHANGED penalties
    /\ AuditUnchangedRest

NextAudit ==
    \/ PostPenalty
    \/ GetAuditLogs
    \/ Finish
    \/ AuditInsert

SpecAudit == Init /\ [][NextAudit]_vars

----------------------------------------------------------------------------
(* Vendor risk assessments (routes/risk.js) *)

\* fetchRiskData: maxAttempts
MaxAttempts == 3

\* Math.random() * 100: scores on both sides of each threshold
RiskScores == {0, 24, 25, 49, 50, 74, 75, 99}

calculateRiskLevel(riskScore) ==
    IF riskScore >= 75 THEN "critical"
    ELSE IF riskScore >= 50 THEN "high"
    ELSE IF riskScore >= 25 THEN "medium"
    ELSE "low"

\* the loop that gives up one failure later
fetchExhausted_late(attempts) == attempts > MaxAttempts

\* fetchRiskData, catch: if (attempts >= maxAttempts) throw
fetchExhausted(attempts) == attempts >= MaxAttempts

\* fetchRiskData, catch: Math.pow(2, attempts) seconds before the next try
backoffSeconds(attempts) == 2 ^ attempts

\* checkRiskThresholds(vendorId, riskScore, riskLevel): for 'critical' and
\* 'high' the parameter list of the INSERT INTO risk_alerts reads
\* req.tenantId, and no req is in scope of the function: the evaluation
\* throws a ReferenceError before query is called.  Other levels return
\* without a query.
checkRiskThresholds(alerts, vendorId, riskLevel) ==
    IF riskLevel \in {"critical", "high"}
    THEN [threw |-> TRUE, alerts |-> alerts]
    ELSE [threw |-> FALSE, alerts |-> alerts]

RiskUnchangedRest ==
    /\ UNCHANGED <<users, tenants>>
    /\ UNCHANGED pipeVars
    /\ UNCHANGED poVars
    /\ UNCHANGED byIdVars
    /\ UNCHANGED rfpVars

\* POST /risk/assessments up to fetchRiskData: the request is authenticated
\* and tenant-resolved; authorize('buyer_admin') answers 403; the handler
\* answers 400 when a validator failed.
RiskStart(u, vendorId, valid) ==
    /\ riskReq.pc \in {"idle", "done"}
    /\ riskReq.id < MaxRiskReqs
    /\ userRows(u) # {}
    /\ LET user == attachUser(u, IssuedToken(u))
           q0 == [IdleRiskReq EXCEPT !.id = riskReq.id + 1, !.userId = u,
                                     !.tenantId = user.tenant_id,
                                     !.vendor_id = vendorId]
       IN  riskReq' =
              IF ~authorize({"buyer_admin"}, user).ok
              THEN [q0 EXCEPT !.pc = "done", !.status = 403]
              ELSE IF ~valid
              THEN [q0 EXCEPT !.pc = "done", !.status = 400]
              ELSE [q0 EXCEPT !.pc = "fetch"]
    /\ UNCHANGED <<vendor_risk_assessments, vendor_master_consolidated, risk_alerts>>
    /\ RiskUnchangedRest

\* fetchRiskData, one turn of its loop: the call of the provider (a
\* placeholder timer where the HTTP call of the provider goes) resolves
\* with a score or rejects; a rejection is counted and either thrown on,
\* which the handler answers with 503, or followed by the backoff delay.
RiskFetch ==
    /\ riskReq.pc = "fetch"
    /\ \E ok \in BOOLEAN, score \in RiskScores :
          LET q1 == [riskReq EXCEPT !.calls = @ + 1]
              failed == riskReq.attempts + 1
          IN  riskReq' =
                 IF ok
                 THEN [q1 EXCEPT !.risk_score = score, !.pc = "persist"]
                 ELSE IF fetchExhausted(failed)
                 THEN [q1 EXCEPT !.attempts = failed, !.pc = "done",
                                 !.status = 503, !.retryable = TRUE]
                 ELSE [q1 EXCEPT !.attempts = failed,
                                 !.waited = Append(@, backoffSeconds(failed))]
    /\ UNCHANGED <<vendor_risk_assessments, vendor_master_consolidated, risk_alerts>>
    /\ RiskUnchangedRest

\* POST /risk/assessments after fetchRiskData: the INSERT INTO
\* vendor_risk_assessments, updateVendorMaster, checkRiskThresholds, and
\* 201, or 500 through errorHandler when checkRiskThresholds threw.  The
\* statements are not in a transaction.
RiskPersist ==
    /\ riskReq.pc = "persist"
    /\ LET q == riskReq
           riskLevel == calculateRiskLevel(q.risk_score)
           checked == checkRiskThresholds(risk_alerts, q.vendor_id, riskLevel)
       IN  /\ vendor_risk_assessments' = Append(vendor_risk_assessments,
                  [tenant_id |-> q.tenantId, vendor_id |-> q.vendor_id,
                   risk_score |-> q.risk_score, risk_level |-> riskLevel,
                   req |-> q.id])
           /\ vendor_master_consolidated' =
                  [vendor_master_consolidated EXCEPT ![q.vendor_id] =
                      [risk_score |-> q.risk_score, risk_level |-> riskLevel,
                       req |-> q.id]]
           /\ risk_alerts' = checked.alerts
           /\ riskReq' = [q EXCEPT !.pc = "done",
                                   !.status = IF checked.threw THEN 500 ELSE 201]
    /\ RiskUnchangedRest

NextRisk ==
    \/ \E u \in Users, vendorId \in RiskVendors, valid \in BOOLEAN :
          RiskStart(u, vendorId, valid)
    \/ RiskFetch
    \/ RiskPersist

SpecRisk == Init /\ [][NextRisk]_vars

\* a request that is being served is served on: the event loop runs every
\* continuation that is ready
SpecRiskLive == SpecRisk /\ WF_vars(RiskFetch) /\ WF_vars(RiskPersist)

----------------------------------------------------------------------------
(* Properties of the pipeline (specification Spec) *)

\* the audit_logs rows written for request id
AuditRowsOf(id) == {i \in DOMAIN audit_logs : audit_logs[i].req = id}

BehindTenantResolution(q) == RouteInfo(q.route).mount = "api"

\* C1: a request without a valid credential (no bearer header, bad
\* signature, expired token) is answered 401 without any query: no business
\* handler executes, no tenant is attached and no row, audit row included,
\* is read or written for it.
C1_NoCredentialNoHandler ==
    (req.pc # "idle" /\ req.cred # "valid") =>
        /\ ~req.ran
        /\ req.queries = 0
        /\ req.user = NoUser /\ req.tenantId = NoTenant
        /\ req.status = 401
        /\ AuditRowsOf(req.id) = {}

C1_Witness ==
    /\ req.pc = "done" /\ req.cred = "expired" /\ req.route = "contract_lock"
    /\ req.status = 401 /\ req.code = "TOKEN_EXPIRED"

\* C20: a request without a bearer header is answered 401 AUTH_REQUIRED, one
\* whose token has a bad signature 401 INVALID_TOKEN and one whose token has
\* expired 401 TOKEN_EXPIRED, each with its own code; the answer comes
\* before any query, and no audit row and no error-log line is ever written
\* for the request.
C20_RejectionCodes ==
    (req.pc # "idle" /\ req.cred # "valid") =>
        /\ req.pc \in {"responded", "done"}
        /\ req.status = 401
        /\ req.code = (CASE req.cred = "none" -> "AUTH_REQUIRED"
                         [] req.cred = "badsig" -> "INVALID_TOKEN"
                         [] req.cred = "expired" -> "TOKEN_EXPIRED")
        /\ req.queries = 0
        /\ \A i \in DOMAIN audit_logs : audit_logs[i].req # req.id
        /\ req.id \notin errorLog

\* a token with a bad signature was rejected on a route behind tenant
\* resolution, after an earlier request had been served
C20_Witness ==
    /\ req.pc = "done" /\ req.cred = "badsig" /\ req.id = 2
    /\ BehindTenantResolution(req)
    /\ req.status = 401 /\ req.code = "INVALID_TOKEN" /\ req.queries = 0

\* C22 as claimed, for the auth endpoints: a request to an auth endpoint
\* that passed authentication and reached its handler has one audit_logs
\* row once it is done.
C22_AuthenticatedIsAudited ==
    (req.pc = "done" /\ req.user # NoUser /\ req.ran
        /\ RouteInfo(req.route).mount = "auth") =>
        Cardinality(AuditRowsOf(req.id)) = 1

\* C23 as claimed: when the response of a request that is to be audited has
\* been finalized ('finish' has fired), its audit_logs row is already there.
C23_AuditedBeforeFinish ==
    req.pc = "auditing" => AuditRowsOf(req.id) # {}

\* the users a login with q's email and password is a correct login of
CorrectLoginOf(q) ==
    {u \in Users : /\ IsActive(u)
                   /\ users[u].email = q.email
                   /\ users[u].password_hash = bcryptHash(q.body.password)}

\* C21 as claimed: a login with the email of an existing user and a password
\* that is not that of any user with this email is answered 401
\* INVALID_CREDENTIALS without a token and, once done, has left exactly one
\* audit_logs row, whose user_id is null.
C21_WrongPasswordAudited ==
    (/\ req.route = "auth_login" /\ req.pc = "done"
     /\ \E u \in Users : IsActive(u) /\ users[u].email = req.email
     /\ \A u \in Users : users[u].email = req.email =>
            users[u].password_hash # bcryptHash(req.body.password)) =>
        /\ req.status = 401 /\ req.code = "INVALID_CREDENTIALS"
        /\ req.issued = NoToken
        /\ Cardinality(AuditRowsOf(req.id)) = 1
        /\ \A i \in AuditRowsOf(req.id) : audit_logs[i].user_id = "none"

\* C30 as claimed: a login with the email and the password of an active
\* user of an active tenant is answered 200 with a token whose userId,
\* tenantId and role are that user's stored values.
C30_LoginIssuesOwnToken ==
    (req.route = "auth_login" /\ req.pc \in {"responded", "done"}) =>
        \A u \in CorrectLoginOf(req) :
            /\ req.status = 200
            /\ req.issued = [userId |-> u, tenantId |-> users[u].tenant_id,
                             role |-> users[u].role]

\* C4 as claimed: every request that reached a business handler behind
\* authentication and tenant resolution has exactly one audit_logs row once
\* it is done.
C4_ExactlyOneAuditRow ==
    (req.pc = "done" /\ req.ran /\ BehindTenantResolution(req)) =>
        Cardinality(AuditRowsOf(req.id)) = 1

\* C4 as amended: for every such request exactly one INSERT into audit_logs
\* is attempted; it leaves exactly one row when it succeeds and none, with a
\* line in the error log, when it fails; there are never two rows.
C4_OneAuditAttempt ==
    /\ Cardinality(AuditRowsOf(req.id)) <= 1
    /\ (req.ran /\ BehindTenantResolution(req)) =>
          /\ req.pc = "auditing" => req.auditTried = 0 /\ AuditRowsOf(req.id) = {}
          /\ req.pc = "done" =>
                /\ req.auditTried = 1
                /\ Cardinality(AuditRowsOf(req.id)) =
                      (IF req.id \in errorLog THEN 0 ELSE 1)

C4_Witness ==
    /\ req.pc = "done" /\ req.ran /\ req.route = "contract_get"
    /\ req.status = 200
    /\ \E i \in AuditRowsOf(req.id) :
          audit_logs[i].status_code = 200 /\ audit_logs[i].user_id = req.user.id

\* C9: a request that arrives with a valid token after its user or the
\* user's tenant stopped being active (or the row was removed) is answered
\* 401 by the first lookup of authenticate: no handler runs, on the routes
\* behind tenant resolution and on the authenticated auth routes alike.
C9_DeactivatedRejected ==
    (req.arrivedInactive /\ req.cred = "valid") =>
        /\ ~req.ran
        /\ req.user = NoUser /\ req.tenantId = NoTenant
        /\ req.pc \in {"auth", "responded", "done"}
        /\ req.pc # "auth" => req.status = 401 /\ req.code = "USER_NOT_FOUND"

\* the second request is rejected although the first one, of the same
\* token, ran its handler
C9_Witness ==
    /\ req.id = 2 /\ req.arrivedInactive /\ req.cred = "valid" /\ req.pc = "done"
    /\ req.status = 401
    /\ \E i \in DOMAIN audit_logs :
          audit_logs[i].req = 1 /\ audit_logs[i].status_code = 200

\* C10: req.user carries the role and the tenant of the persisted row as the
\* last lookup of the request read it, the tenant attached is that row's
\* tenant, and the authorization gate decides by that role: a request is let
\* through a gated route only if the stored role is allowed, and is denied
\* 403 only if it is not, whatever role the token carries.
C10_RoleFromStorage ==
    /\ req.user # NoUser =>
          /\ req.user.role = req.seenRole
          /\ req.user.tenant_id = users[req.user.id].tenant_id
    /\ req.tenantId # NoTenant => req.tenantId = users[req.token.userId].tenant_id
    /\ RouteInfo(req.route).gated =>
          /\ (req.pc = "handler" \/ req.ran) =>
                req.seenRole \in RouteInfo(req.route).roles
          /\ req.code = "PERMISSION_DENIED" =>
                req.seenRole \notin RouteInfo(req.route).roles

\* a token issued to a buyer_admin is denied after the stored role changed
C10_Witness ==
    /\ req.route = "contract_lock" /\ req.token.role = "buyer_admin"
    /\ req.seenRole = "vendor_user"
    /\ req.status = 403 /\ req.code = "PERMISSION_DENIED" /\ ~req.ran

\* the request was denied by the authorize(...) of its route
RoleDenied(q) == q.status = 403 /\ q.code = "PERMISSION_DENIED"

\* C11 as claimed: a request denied for its role is answered 403, ran no
\* business handler and made no query but the lookups of authenticate and
\* tenantMiddleware, and once it is done audit_logs holds an entry with its
\* action, its status and the user's id.
C11_DeniedIsAudited ==
    RoleDenied(req) =>
        /\ ~req.ran
        /\ req.queries <= 3 + req.auditTried
        /\ req.pc = "done" =>
              \E i \in AuditRowsOf(req.id) :
                  /\ audit_logs[i].user_id = req.token.userId
                  /\ audit_logs[i].action = req.route
                  /\ audit_logs[i].status_code = 403

\* C11 as amended: such a request ran no business handler and made no
\* business query; exactly one INSERT into audit_logs is attempted for it,
\* and the entry, stored unless that INSERT failed (then the error log has
\* a line), carries the attempted action, the status 403, the tenant and
\* the user's id.
C11_DeniedAuditAttempted ==
    RoleDenied(req) =>
        /\ ~req.ran
        /\ req.queries <= 3 + req.auditTried
        /\ req.user.id = req.token.userId
        /\ req.pc = "done" =>
              /\ req.auditTried = 1
              /\ (req.id \in errorLog) = (AuditRowsOf(req.id) = {})
        /\ \A i \in AuditRowsOf(req.id) :
              /\ audit_logs[i].user_id = req.token.userId
              /\ audit_logs[i].tenant_id = req.tenantId
              /\ audit_logs[i].action = req.route
              /\ audit_logs[i].status_code = 403

\* a vendor_user's attempt to lock a contract is denied and recorded
C11_Witness ==
    /\ RoleDenied(req) /\ req.pc = "done" /\ req.route = "contract_lock"
    /\ req.seenRole = "vendor_user"
    /\ \E i \in AuditRowsOf(req.id) :
          audit_logs[i].user_id = "u1" /\ audit_logs[i].status_code = 403

----------------------------------------------------------------------------
(* RFP sections and publication (routes/rfp.js), requests in flight        *)
(* together and interleaving at every awaited query                        *)

RfpCallers == {"u1", "u3"}

RfpUnchangedRest ==
    /\ UNCHANGED <<users, tenants>>
    /\ UNCHANGED pipeVars
    /\ UNCHANGED poVars
    /\ UNCHANGED byIdVars
    /\ UNCHANGED riskVars

\* POST /rfp/:id/sections or POST /rfp/:id/publish arrives, authenticated
\* and tenant-resolved, passes authorize('buyer_admin', 'buyer_user') and
\* its handler runs up to its first query.
RfpStart(r) ==
    /\ rfpReqs[r].pc = "idle"
    /\ \A s \in RfpSlots : s < r => rfpReqs[s].pc # "idle"
    /\ \E kind \in {"section", "publish"}, u \in RfpCallers, id \in DOMAIN rfps :
          /\ userRows(u) # {}
          /\ authorize({"buyer_admin", "buyer_user"},
                       attachUser(u, IssuedToken(u))).ok
          /\ rfpReqs' = [rfpReqs EXCEPT ![r] =
                [IdleRfpReq EXCEPT !.kind = kind, !.userId = u,
                    !.tenantId = attachUser(u, IssuedToken(u)).tenant_id,
                    !.target = id, !.pc = "check"]]
    /\ UNCHANGED <<rfps, rfp_sections>>
    /\ RfpUnchangedRest

\* SELECT id, status FROM rfps WHERE id = $1 AND tenant_id = $2 AND
\* owner_id = $3, and the checks on its result: 404 without a row, 400 when
\* the status read is not 'draft'
RfpCheck(r) ==
    /\ rfpReqs[r].pc = "check"
    /\ LET q == rfpReqs[r]
           rows == {i \in DOMAIN rfps : /\ i = q.target
                                        /\ rfps[i].tenant_id = q.tenantId
                                        /\ rfps[i].owner_id = q.userId}
       IN  rfpReqs' = [rfpReqs EXCEPT ![r] =
              IF rows = {}
              THEN [q EXCEPT !.pc = "done", !.status = 404]
              ELSE IF rfps[q.target].status # "draft"
              THEN [q EXCEPT !.pc = "done", !.status = 400]
              ELSE [q EXCEPT !.pc = IF q.kind = "section" THEN "count"
                                                          ELSE "update"]]
    /\ UNCHANGED <<rfps, rfp_sections>>
    /\ RfpUnchangedRest

\* POST /:id/sections: SELECT COUNT(*) FROM rfp_sections WHERE rfp_id = $1
SectionCount(r) ==
    /\ rfpReqs[r].pc = "count"
    /\ rfpReqs' = [rfpReqs EXCEPT
          ![r].count = Cardinality({i \in DOMAIN rfp_sections :
                           rfp_sections[i].rfp_id = rfpReqs[r].target}),
          ![r].pc = "insert"]
    /\ UNCHANGED <<rfps, rfp_sections>>
    /\ RfpUnchangedRest

\* POST /:id/sections: INSERT INTO rfp_sections, and 201
SectionInsert(r) ==
    /\ rfpReqs[r].pc = "insert"
    /\ rfp_sections' = Append(rfp_sections,
          [rfp_id |-> rfpReqs[r].target, section_number |-> rfpReqs[r].count + 1])
    /\ rfpReqs' = [rfpReqs EXCEPT ![r].pc = "done", ![r].status = 201]
    /\ UNCHANGED rfps
    /\ RfpUnchangedRest

\* POST /:id/publish: UPDATE rfps SET status = 'published' WHERE id = $2,
\* and 200
PublishUpdate(r) ==
    /\ rfpReqs[r].pc = "update"
    /\ rfps' = [rfps EXCEPT ![rfpReqs[r].target].status = "published"]
    /\ rfpReqs' = [rfpReqs EXCEPT ![r].pc = "done", ![r].status = 200]
    /\ UNCHANGED rfp_sections
    /\ RfpUnchangedRest

NextRfp ==
    \/ \E r \in RfpSlots : RfpStart(r)
    \/ \E r \in RfpSlots : RfpCheck(r)
    \/ \E r \in RfpSlots : SectionCount(r)
    \/ \E r \in RfpSlots : SectionInsert(r)
    \/ \E r \in RfpSlots : PublishUpdate(r)

SpecRfp == Init /\ [][NextRfp]_vars

----------------------------------------------------------------------------
(* Properties of the RFP sections (specification SpecRfp) *)

\* C26 as claimed: every step that inserts a section inserts it into an
\* RFP whose status is 'draft' at that moment.
C26_SectionOnlyWhileDraft ==
    [][\A i \in (DOMAIN rfp_sections') \ (DOMAIN rfp_sections) :
            rfps[rfp_sections'[i].rfp_id].status = "draft"]_vars

----------------------------------------------------------------------------
(* Properties of the risk assessments (specifications SpecRisk, SpecRiskLive) *)

\* the rows request id has written to the risk tables
RiskRowsOf(id) ==
    {<<"vendor_risk_assessments", i>> : i \in
        {j \in DOMAIN vendor_risk_assessments : vendor_risk_assessments[j].req = id}}
    \cup {<<"vendor_master_consolidated", v>> : v \in
        {w \in RiskVendors : vendor_master_consolidated[w].req = id}}
    \cup {<<"risk_alerts", i>> : i \in
        {j \in DOMAIN risk_alerts : risk_alerts[j].req = id}}

\* C24: fetchRiskData calls the provider at most 3 times; after the k-th
\* failure, k < 3, it has waited 2^k seconds; a call that succeeds ends it
\* with that result, so that every call before was a failure; after the
\* third failure it throws and the request is answered 503 with retryable
\* true, having written no assessment, vendor-master row or alert; and
\* once started fetchRiskData always comes to its end.
C24_FetchBounded ==
    /\ [](/\ riskReq.calls <= 3
          /\ riskReq.attempts <= riskReq.calls
          /\ riskReq.waited =
                [k \in 1..(IF riskReq.attempts < 3 THEN riskReq.attempts ELSE 2)
                    |-> 2 ^ k]
          /\ (riskReq.pc = "persist" \/ riskReq.status \in {201, 500}) =>
                riskReq.calls = riskReq.attempts + 1
          /\ (riskReq.pc = "done" /\ riskReq.attempts = 3) <=>
                riskReq.status = 503
          /\ riskReq.status = 503 =>
                /\ riskReq.retryable
                /\ RiskRowsOf(riskReq.id) = {})
    /\ [](riskReq.pc = "fetch" => <>(riskReq.pc \in {"persist", "done"}))

\* after an assessment was stored, the provider failed three times for the
\* next request, which was answered 503 after waiting 2 and 4 seconds
C24_Witness ==
    /\ riskReq.id = 2 /\ riskReq.pc = "done" /\ riskReq.status = 503
    /\ riskReq.calls = 3 /\ riskReq.waited = <<2, 4>>
    /\ Len(vendor_risk_assessments) = 1

\* C25 as claimed: a request that stored an assessment of level 'high' or
\* 'critical' has answered 201 and has inserted exactly one risk_alerts row,
\* with status 'active', for the caller's tenant and that vendor; one that
\* stored an assessment of level 'low' or 'medium' has inserted none.
C25_AlertOnHighRisk ==
    \A i \in DOMAIN vendor_risk_assessments :
        LET a == vendor_risk_assessments[i]
            alerts == {j \in DOMAIN risk_alerts : risk_alerts[j].req = a.req}
        IN  (riskReq.pc = "done" /\ a.req = riskReq.id) =>
                IF a.risk_level \in {"high", "critical"}
                THEN /\ riskReq.status = 201
                     /\ Cardinality(alerts) = 1
                     /\ \A j \in alerts :
                           /\ risk_alerts[j].status = "active"
                           /\ risk_alerts[j].tenant_id = riskReq.tenantId
                           /\ risk_alerts[j].vendor_id = a.vendor_id
                ELSE alerts = {}

----------------------------------------------------------------------------
(* Properties of authorize (specification SpecGate) *)

\* C19: the last evaluation of authorize(R) let the request through exactly
\* when it carried a user whose role is a member of R; without a user it
\* answered 401 AUTH_REQUIRED; with a user whose role is not in R, and so
\* with every user when R is empty, it answered 403 PERMISSION_DENIED
\* naming R as the required roles and the user's role as the current one.
C19_AuthorizeIsMembership ==
    gate.applied =>
        LET R == gate.allowedRoles
            user == gate.user
            res == gate.result
        IN  /\ res.ok <=> (user # NoUser /\ user.role \in R)
            /\ user = NoUser =>
                  res.status = 401 /\ res.code = "AUTH_REQUIRED"
            /\ (user # NoUser /\ user.role \notin R) =>
                  /\ res.status = 403 /\ res.code = "PERMISSION_DENIED"
                  /\ res.required = R /\ res.current = user.role
            /\ (user # NoUser /\ R = {}) => res.status = 403

\* a route that declares no role has denied a buyer_admin
C19_Witness ==
    /\ gate.applied /\ gate.allowedRoles = {}
    /\ gate.user # NoUser /\ gate.user.role = "buyer_admin"
    /\ gate.result.status = 403 /\ gate.result.code = "PERMISSION_DENIED"
    /\ gate.result.current = "buyer_admin"

----------------------------------------------------------------------------
(* Properties of the purchase-order synchronisation (specification SpecPO) *)

PoExists(id) == id \in DOMAIN purchase_orders

\* C5: when syncPOToERP runs for an order, whether from its creation or from
\* a manual sync, the order's row exists; a row for which no ERP push has
\* been made yet still has erp_sync_status 'pending'; and whatever the
\* outcome of the sync attempts, every row stays in place with lifecycle
\* status 'draft'.
C5_CommittedBeforeSync ==
    /\ \A r \in PoSlots :
          (InSync(poReqs[r]) \/ poReqs[r].called) => PoExists(poReqs[r].target)
    /\ \A i \in DOMAIN purchase_orders :
          /\ purchase_orders[i].id = i
          /\ purchase_orders[i].status = "draft"
          /\ erpCalls[i] = 0 =>
                /\ purchase_orders[i].erp_sync_status = "pending"
                /\ purchase_orders[i].erp_po_id = NullId

\* the sync started by a creation failed and the order is still a draft
C5_Witness ==
    \E r \in PoSlots :
        /\ poReqs[r].kind = "create" /\ poReqs[r].pc = "done" /\ poReqs[r].threw
        /\ PoExists(poReqs[r].target)
        /\ purchase_orders[poReqs[r].target].erp_sync_status = "failed"
        /\ purchase_orders[poReqs[r].target].status = "draft"

\* request r was served with no other request in flight: every earlier one
\* had answered when it started and no later one has started
RanAlone(r) ==
    /\ poReqs[r].solo
    /\ \A s \in PoSlots : s > r => poReqs[s].pc = "idle"

\* C6 as claimed: a manual sync made in sequence, with no other request in
\* flight, that finds the order already synced with its erp_po_id stored
\* makes no further create call to the ERP system.
C6_ResyncMakesNoCreate ==
    \A r \in PoSlots :
        (poReqs[r].kind = "sync" /\ poReqs[r].sawSynced /\ RanAlone(r)) =>
            ~poReqs[r].called

\* C7 as claimed: at no time are two requests inside syncPOToERP for the
\* same purchase order.
C7_SyncSerializedPerOrder ==
    \A r1, r2 \in PoSlots :
        (r1 # r2 /\ InSync(poReqs[r1]) /\ InSync(poReqs[r2])) =>
            poReqs[r1].target # poReqs[r2].target

\* C8 as claimed: when a request, served with no other request in flight,
\* has answered after its ERP sync attempt failed, the order exists with erp_sync_status 'failed' or 'retrying' and
\* a non-null erp_sync_error.
C8_FailedSyncAnnotated ==
    \A r \in PoSlots :
        (poReqs[r].pc = "done" /\ poReqs[r].threw /\ RanAlone(r)) =>
            /\ PoExists(poReqs[r].target)
            /\ purchase_orders[poReqs[r].target].erp_sync_status
                  \in {"failed", "retrying"}
            /\ purchase_orders[poReqs[r].target].erp_sync_error # NoError

\* C16 as claimed: an order is left in the failed-sync state only after the
\* push to the ERP system has been attempted again: an order whose
\* erp_sync_status is 'failed' has been through at least two attempts.
C16_FailedOnlyAfterRetries ==
    \A i \in DOMAIN purchase_orders :
        purchase_orders[i].erp_sync_status = "failed" => erpCalls[i] >= 2

\* the rows of integration_sync_logs written for order id
SyncLogRowsOf(id) ==
    {k \in DOMAIN integration_sync_logs : integration_sync_logs[k].po = id}

\* C17 as claimed: once no request is inside syncPOToERP for an order,
\* integration_sync_logs holds one row for each sync attempt made for it,
\* each with status 'success' or 'failed'.
C17_OneLogRowPerAttempt ==
    \A i \in DOMAIN purchase_orders :
        (\A r \in PoSlots : ~(InSync(poReqs[r]) /\ poReqs[r].target = i)
                             /\ poReqs[r].pc # "annotate") =>
            /\ Cardinality(SyncLogRowsOf(i)) = erpCalls[i]
            /\ \A k \in SyncLogRowsOf(i) :
                  integration_sync_logs[k].status \in {"success", "failed"}

\* the fields of an order that a sync may write, set back to their values
\* at creation
withoutSyncFields(po) ==
    [po EXCEPT !.erp_sync_status = "pending", !.erp_po_id = NullId,
               !.erp_sync_error = NoError]

\* C18: the order a creation request inserted differs from the row that was
\* inserted in erp_sync_status, erp_po_id and erp_sync_error at most,
\* whatever syncs, failed or not, have run for it since: total_amount,
\* currency, line_items, vendor_id, po_number and status are those of the
\* creation.
C18_SyncKeepsCoreFields ==
    \A r \in PoSlots :
        LET q == poReqs[r]
        IN  (q.kind = "create" /\ q.target # 0) =>
                /\ PoExists(q.target)
                /\ withoutSyncFields(purchase_orders[q.target])
                      = newPoRow(q.target, q.tenantId, q.count + 1, q, q.userId)

\* an order whose first sync failed at creation has been through a manual
\* sync as well and still carries the amount and the lines it was given
C18_Witness ==
    \E r, s \in PoSlots :
        /\ poReqs[r].kind = "create" /\ poReqs[r].pc = "done" /\ poReqs[r].threw
        /\ poReqs[s].kind = "sync" /\ poReqs[s].pc = "done" /\ poReqs[s].called
        /\ poReqs[s].target = poReqs[r].target
        /\ purchase_orders[poReqs[r].target].erp_sync_status = "synced"
        /\ purchase_orders[poReqs[r].target].total_amount = poReqs[r].total_amount
        /\ purchase_orders[poReqs[r].target].line_items = <<r>>

\* C27 as claimed: a manual sync, served with no other request in flight,
\* that answered 200 left the order 'synced' with an erp_po_id, and one that
\* answered the retryable 503 did not leave the order marked 'synced'.
C27_SyncAnswerMatchesState ==
    \A r \in PoSlots :
        (poReqs[r].kind = "sync" /\ poReqs[r].pc = "done" /\ RanAlone(r)) =>
            /\ poReqs[r].status = 200 =>
                  /\ purchase_orders[poReqs[r].target].erp_sync_status = "synced"
                  /\ purchase_orders[poReqs[r].target].erp_po_id # NullId
            /\ poReqs[r].status = 503 =>
                  purchase_orders[poReqs[r].target].erp_sync_status # "synced"

\* C28 as claimed: an order whose erp_sync_status is 'synced' has no
\* erp_sync_error.
C28_SyncedHasNoError ==
    \A i \in DOMAIN purchase_orders :
        purchase_orders[i].erp_sync_status = "synced" =>
            purchase_orders[i].erp_sync_error = NoError

\* C29 as claimed: every creation request that has answered, whatever other
\* creation of the same tenant it interleaved with, answered 201 with its
\* order stored, and no two orders of a tenant carry the same po_number.
C29_NoNumberCollision ==
    /\ \A r \in PoSlots :
          (poReqs[r].kind = "create" /\ poReqs[r].pc = "done") =>
              poReqs[r].status = 201 /\ PoExists(poReqs[r].target)
    /\ \A i, j \in DOMAIN purchase_orders :
          (i # j /\ purchase_orders[i].tenant_id = purchase_orders[j].tenant_id) =>
              purchase_orders[i].po_number # purchase_orders[j].po_number

----------------------------------------------------------------------------
(* Properties of the by-id operations (specification SpecTenant) *)

\* the tenant that owns row <<table, id>>
OwnerOf(row) ==
    IF row[1] = "contracts" THEN contracts[row[2]].tenant_id
    ELSE IF row[1] = "penalties" THEN penalties[row[2]].tenant_id
    ELSE IF row[1] = "purchase_orders" THEN purchase_orders[row[2]].tenant_id
    ELSE IF row[1] = "rfp_responses"
         THEN SeedRfps[SeedRfpResponses[row[2]].rfp_id].tenant_id
    ELSE IF row[1] = "ai_evaluation_scores"
         THEN SeedRfps[SeedRfpResponses[
                  ai_evaluation_scores[row[2]].response_id].rfp_id].tenant_id
    ELSE IF row[1] = "evaluation_overrides"
         THEN SeedRfps[SeedRfpResponses[
                  ai_evaluation_scores[evaluation_overrides[row[2]].evaluation_id]
                      .response_id].rfp_id].tenant_id
    ELSE IF row[1] = "integration_sync_logs"
         THEN SeedIntegrations[integration_sync_logs[row[2]].integration_id].tenant_id
    ELSE SeedSurveys[survey_responses[row[2]].survey_id].tenant_id

\* the record the last request named, in the table its operation works on
CallTarget ==
    <<IF call.op \in {"contract_get", "contract_lock"} THEN "contracts"
      ELSE IF call.op = "penalty_approve" THEN "penalties"
      ELSE "purchase_orders", call.id>>

CrossTenantCall ==
    /\ call.op \in {"contract_get", "contract_lock", "penalty_approve", "po_sync"}
    /\ OwnerOf(CallTarget) # call.tenantId

\* C3: a manual PO sync, get contract, lock contract or approve penalty
\* made with the id of a record of another tenant answers 404, returns no
\* row and writes no row, whatever tenant_id the body carries; and no
\* request of any kind ever returns or writes a row of another tenant.
C3_CrossTenantNotFound ==
    /\ CrossTenantCall =>
          /\ call.status = 404
          /\ call.returned = {}
          /\ call.written = {}
    /\ \A row \in call.returned \cup call.written : OwnerOf(row) = call.tenantId

\* tenant A's administrator tried to lock tenant B's contract, naming
\* tenant B in the body: 404, and the contract is still under review
C3_Witness ==
    /\ call.op = "contract_lock" /\ call.user = "u1" /\ call.id = 2
    /\ call.body_tenant_id = "tB"
    /\ call.status = 404
    /\ contracts[2] = SeedContracts[2]

----------------------------------------------------------------------------
(* Properties of the parent/child operations (specification SpecChild) *)

\* C2 as claimed: no query of a handler returns or writes a row that belongs
\* to a tenant other than the caller's resolved tenant, rows reached through
\* an RFP id, an evaluation id, an integration id or a survey id included.
C2_NoCrossTenantRows ==
    \A row \in call.returned \cup call.written : OwnerOf(row) = call.tenantId

----------------------------------------------------------------------------
(* Properties of the audit trail (specification SpecAudit) *)

\* the fields named password, password_hash or token of a stored detail,
\* at every depth of the body and in the query
SecretFields(details) ==
    {details.body.password, details.body.password_hash, details.body.token,
     details.body.profile.password, details.body.profile.token,
     details.query.token}

\* C12 as claimed: in every stored audit entry each field named password,
\* password_hash or token, in the body at any depth and in the query, is
\* absent or holds the placeholder, never a submitted value.
C12_NoSecretStored ==
    \A i \in DOMAIN audit_logs :
        SecretFields(audit_logs[i].details) \subseteq {Absent, Redacted}

\* C13: the step that completes the audit INSERT, accepted or rejected,
\* leaves the answer the client received (status, code), the handler's
\* effect on the penalties table and every other business table as they
\* are; a rejected INSERT adds a line to the error log and nothing else, an
\* accepted one leaves the error log alone.
C13_AuditFailureHarmless ==
    [][req.pc = "auditing" =>
          /\ req'.status = req.status /\ req'.code = req.code
          /\ req'.ran = req.ran
          /\ penalties' = penalties
          /\ UNCHANGED <<purchase_orders, contracts, contract_versions>>
          /\ audit_logs' = audit_logs => errorLog' = errorLog \cup {req.id}
          /\ audit_logs' # audit_logs => errorLog' = errorLog]_vars

\* a penalty was created and answered 201, its audit INSERT failed, and
\* the penalty is in place
C13_Witness ==
    /\ req.pc = "done" /\ req.route = "penalty_create" /\ req.status = 201
    /\ req.id \in errorLog /\ AuditRowsOf(req.id) = {}
    /\ penalties # <<>>
    /\ penalties[Len(penalties)].created_by = req.user.id
    /\ penalties[Len(penalties)].status = "pending"

\* C14: every step leaves each stored audit entry in place with all its
\* fields unchanged; audit_logs only grows at its end (INSERT) and is
\* otherwise only read (GET /admin/audit-logs).
C14_AuditAppendOnly ==
    [][/\ Len(audit_logs') >= Len(audit_logs)
       /\ \A i \in DOMAIN audit_logs : audit_logs'[i] = audit_logs[i]]_vars

\* two entries are stored and the administrator has read the first
C14_Witness ==
    /\ Len(audit_logs) = 2
    /\ call.op = "audit_logs" /\ call.returned = {<<"audit_logs", 1>>}
    /\ audit_logs[1].req = 1 /\ audit_logs[2].req = 2

----------------------------------------------------------------------------
(* Properties of the penalties (specification SpecPenalty) *)

\* C15: every step that adds a penalty adds it with status 'pending' and no
\* approver, whatever came with the request; every step that changes the
\* status of a stored penalty is an approval, by a buyer_admin of the
\* penalty's tenant, that takes it from 'pending' to 'approved' and records
\* the approver; no other step changes a penalty's status.
C15_PenaltyStatusGate ==
    [][/\ \A i \in (DOMAIN penalties') \ (DOMAIN penalties) :
             /\ penalties'[i].status = "pending"
             /\ penalties'[i].approved_by = "none"
       /\ \A i \in DOMAIN penalties :
             penalties'[i].status # penalties[i].status =>
                 /\ penalties[i].status = "pending"
                 /\ penalties'[i].status = "approved"
                 /\ call'.op = "penalty_approve" /\ call'.id = i
                 /\ call'.status = 200
                 /\ users[call'.user].role = "buyer_admin"
                 /\ users[call'.user].tenant_id = penalties[i].tenant_id
                 /\ penalties'[i].approved_by = call'.user]_vars

\* a penalty created through the route was approved by its tenant's
\* administrator while the other tenant's penalty is still pending
C15_Witness ==
    /\ Len(penalties) = 3
    /\ penalties[3].created_by = "u1" /\ penalties[3].status = "approved"
    /\ penalties[3].approved_by = "u1"
    /\ penalties[2].status = "pending"

====
